---- MODULE Spec2Model ----
(***************************************************************************)
(* The moderated, quota-metered streaming chat relay of chatpro            *)
(* (server/index.js): admission by network rule, input moderation, quota   *)
(* pre-check, the streamed backend call, output re-screening, metrics,     *)
(* quota commit, persistence and the audit entry.                          *)
(*                                                                         *)
(* Text is a sequence of one-character strings, so that substring          *)
(* screening and concatenation of deltas are computed, not assumed.        *)
(* better-sqlite3 is synchronous: a handler suspends only at `await fetch` *)
(* and at each read of the backend stream, so each action below is one     *)
(* run of code between two suspension points.                              *)
(***************************************************************************)
EXTENDS Integers, Sequences, FiniteSets, TLC

\* ------------------------------------------------------------------ bounds
MaxReq == 2           \* chat requests per behaviour, turns may overlap
MaxSeqReq == 3        \* chat requests per behaviour when turns do not overlap
MaxAdmissionReq == 4  \* chat requests per behaviour of the admission specification
MaxModerationReq == 1 \* chat requests per behaviour of the moderation specification
MaxAdminOps == 1      \* administrative recharges and edits per behaviour
MaxEvents == 2        \* backend events read per turn
MaxDate == 2          \* dates the clock runs through
MaxClock == 1         \* milliseconds that pass in a behaviour
MaxPersistReq == 2    \* chat requests per behaviour of the persistence specification
MaxTrustReq == 2      \* chat requests per behaviour of the trust specification
MaxStepReq == 2       \* chat requests per behaviour of the statement-level specification
MaxMetricReq == 3     \* chat requests per behaviour of the metrics specification
MaxPersonaReq == 2    \* chat requests per behaviour of the persona specification
MaxRateReq == 3       \* chat requests per behaviour of the rate-limit specification
MaxClientReq == 1     \* chat requests per behaviour of the client specification
MaxSends == 3         \* handleSend calls that pass the guard, per behaviour
MaxWireFrames == 2    \* frames in a backend response body
MaxLimit == 2         \* largest configured daily limit

\* ----------------------------------------------------------- input domains
Null == [null |-> TRUE]         \* JavaScript null, for a record
NullId == 0                     \* JavaScript null, for an id
NoToken == ""
NoConv == 0                     \* the request carries no conversationId
Ips == {"ip1", "ip2"}
Tiers == {"normal", "enhanced", "pro"}
Usages == {[input_tokens |-> 3, output_tokens |-> 4, total_tokens |-> 7]}
Deltas == {<<"a">>, <<"b">>}
WordList == {<<"a", "b">>, <<"b", "b">>}
ZeroUsage == [input_tokens |-> 0, output_tokens |-> 0, total_tokens |-> 0]
Refusal == <<"s", "o", "r", "r", "y">>

\* -------------------------------------------------------------- variables
VARIABLES
  apiKey,           \* OPENAI_API_KEY is set
  ip_rules,         \* table ip_rules: rows [ip, type, limit_value]
  personas,         \* table personas: id -> row
  today,            \* the date getToday() returns
  clock,            \* the millisecond nowIso() returns
  nanoid,           \* ids handed out so far (fresh-id source)
  users,            \* table users: user_id -> row
  sensitive_words,  \* table sensitive_words: set of words
  ip_requests,      \* table ip_requests: <<ip, date>> -> count (0: no row)
  conversations,    \* table conversations: id -> row
  messages,         \* table messages, in insertion order
  audit_logs,       \* table audit_logs, in insertion order
  metrics_daily,    \* table metrics_daily: date -> row
  metrics_traffic,  \* table metrics_traffic: <<date, type, key>> -> count
  keywords_daily,   \* table keywords_daily: <<date, word>> -> count
  turns,            \* one record per request received, in arrival order
  fetches,          \* requests for which the backend call was opened
  adminOps,         \* administrative recharges and edits made so far
  isTyping,         \* web client: state isTyping
  abortControllerRef, \* web client: abortControllerRef.current (0: null)
  sends             \* web client: one record per handleSend that passed its guard

vars == <<apiKey, ip_rules, personas, today, clock, nanoid, users, sensitive_words, ip_requests,
          conversations, messages, audit_logs, metrics_daily, metrics_traffic,
          keywords_daily, turns, fetches, adminOps, isTyping, abortControllerRef,
          sends>>

browser == <<isTyping, abortControllerRef, sends>>
config == <<apiKey, ip_rules, personas>>
tables == <<users, sensitive_words, ip_requests, conversations, messages,
            audit_logs, metrics_daily, metrics_traffic, keywords_daily>>

\* ---------------------------------------------------------------- helpers
\* DEFAULT_QUOTA_ENHANCED and DEFAULT_QUOTA_PRO of the deployment
defaultQuotas == [enhanced |-> 2, pro |-> 1]

\* String.prototype.includes
Includes(text, word) ==
  \E i \in 0..(Len(text) - Len(word)) : SubSeq(text, i + 1, i + Len(word)) = word

checkSensitive(content) ==
  \E word \in sensitive_words : word # <<>> /\ Includes(content, word)

\* content.slice(0, n)
Slice(text, n) == SubSeq(text, 1, IF Len(text) < n THEN Len(text) ELSE n)

\* String(content).split(/\s+/).filter(Boolean)
RECURSIVE SplitWs(_, _)
SplitWs(text, cur) ==
  IF text = <<>> THEN (IF cur = <<>> THEN <<>> ELSE <<cur>>)
  ELSE IF Head(text) = " "
       THEN (IF cur = <<>> THEN <<>> ELSE <<cur>>) \o SplitWs(Tail(text), <<>>)
       ELSE SplitWs(Tail(text), Append(cur, Head(text)))

KeywordTokens(content) == Slice(SplitWs(content, <<>>), 12)

UserByToken(token) ==
  IF token # NoToken /\ \E id \in DOMAIN users : users[id].token = token
  THEN LET id == CHOOSE id \in DOMAIN users : users[id].token = token
       IN [user_id |-> id, tag |-> users[id].tag,
           quota_enhanced |-> users[id].quota_enhanced,
           quota_pro |-> users[id].quota_pro]
  ELSE Null

IsBlocked(ip) == \E r \in ip_rules : r.ip = ip /\ r.type = "block"

\* limitRule?.limit_value (0 when the address has no limit rule)
LimitValue(ip) ==
  IF \E r \in ip_rules : r.ip = ip /\ r.type = "limit"
  THEN (CHOOSE r \in ip_rules : r.ip = ip /\ r.type = "limit").limit_value
  ELSE 0

\* The rule tables the administrative surface can have built: any block
\* rows, and at most one limit row per address.
RuleRows ==
  [ip : Ips, type : {"block"}, limit_value : {0}] \cup
  [ip : Ips, type : {"limit"}, limit_value : 1..MaxLimit]

RuleTables ==
  {t \in SUBSET RuleRows :
     \A a, b \in t : (a.type = "limit" /\ b.type = "limit" /\ a.ip = b.ip) => a = b}

\* ------------------------------------------------------------------- Init
\* The persona ids and inline prompts of a request; "" is a falsy value
\* (absent, null or empty).
NoPersona == ""
NoPrompt == ""

\* The personas initDb seeds.
SeedPersonas ==
  ("miku" :> [name |-> "miku", prompt |-> "fresh"])
    @@ ("architect" :> [name |-> "architect", prompt |-> "structured"])

InitTables ==
  /\ today = 1
  /\ personas = SeedPersonas
  /\ clock = 0
  /\ nanoid = 0
  /\ users = <<>>
  /\ sensitive_words = {}
  /\ ip_requests = [k \in Ips \X (1..MaxDate) |-> 0]
  /\ conversations = <<>>
  /\ messages = <<>>
  /\ audit_logs = <<>>
  /\ metrics_daily = <<>>
  /\ metrics_traffic = <<>>
  /\ keywords_daily = <<>>
  /\ turns = <<>>
  /\ fetches = {}
  /\ adminOps = 0
  /\ isTyping = FALSE
  /\ abortControllerRef = 0
  /\ sends = <<>>

\* ------------------------------------------------------- the chat handler
fallbackPersona == [name |-> "roleplay", prompt |-> "stay in character"]

\* Mutant: an inline prompt wins over the stored persona.
ActivePersonaInlineFirst(personaId, personaPrompt) ==
  IF personaId # NoPersona /\ personaPrompt # NoPrompt
  THEN [name |-> "custom", prompt |-> personaPrompt]
  ELSE IF personaId # NoPersona /\ personaId \in DOMAIN personas
  THEN personas[personaId]
  ELSE fallbackPersona

\* persona || (personaId && personaPrompt ? custom : null) || fallbackPersona
ActivePersona(personaId, personaPrompt) ==
  LET persona == IF personaId # NoPersona /\ personaId \in DOMAIN personas
                 THEN personas[personaId] ELSE Null
  IN IF persona # Null THEN persona
     ELSE IF personaId # NoPersona /\ personaPrompt # NoPrompt
     THEN [name |-> "custom", prompt |-> personaPrompt]
     ELSE fallbackPersona

\* Value of a keyed table with growing key set, `dflt` when the row is absent.
Get(table, key, dflt) == IF key \in DOMAIN table THEN table[key] ELSE dflt

\* Mutant: the limit test is > instead of >=.
checkIpRulesOffByOne(ip) ==
  IF IsBlocked(ip) THEN [verdict |-> "blocked", ip_requests |-> ip_requests]
  ELSE IF LimitValue(ip) # 0
       THEN IF ip_requests[<<ip, today>>] > LimitValue(ip)
            THEN [verdict |-> "rate_limited", ip_requests |-> ip_requests]
            ELSE [verdict |-> "next",
                  ip_requests |-> [ip_requests EXCEPT ![<<ip, today>>] = @ + 1]]
       ELSE [verdict |-> "next", ip_requests |-> ip_requests]

\* Mutant: every admitted request is counted, limit rule or not.
checkIpRulesCountAll(ip) ==
  IF IsBlocked(ip) THEN [verdict |-> "blocked", ip_requests |-> ip_requests]
  ELSE IF LimitValue(ip) # 0 /\ ip_requests[<<ip, today>>] >= LimitValue(ip)
       THEN [verdict |-> "rate_limited", ip_requests |-> ip_requests]
       ELSE [verdict |-> "next",
             ip_requests |-> [ip_requests EXCEPT ![<<ip, today>>] = @ + 1]]

\* Mutant: the limit rule is applied before the block rule is looked up.
checkIpRulesLimitFirst(ip) ==
  IF LimitValue(ip) # 0 /\ ip_requests[<<ip, today>>] >= LimitValue(ip)
  THEN [verdict |-> "rate_limited", ip_requests |-> ip_requests]
  ELSE LET counted == IF LimitValue(ip) # 0
                      THEN [ip_requests EXCEPT ![<<ip, today>>] = @ + 1]
                      ELSE ip_requests
       IN IF IsBlocked(ip) THEN [verdict |-> "blocked", ip_requests |-> counted]
          ELSE [verdict |-> "next", ip_requests |-> counted]

\* checkIpRules: the verdict ("blocked", "rate_limited" or "next") and the
\* table ip_requests it leaves behind.
checkIpRules(ip) ==
  IF IsBlocked(ip) THEN [verdict |-> "blocked", ip_requests |-> ip_requests]
  ELSE IF LimitValue(ip) # 0
       THEN IF ip_requests[<<ip, today>>] >= LimitValue(ip)
            THEN [verdict |-> "rate_limited", ip_requests |-> ip_requests]
            ELSE [verdict |-> "next",
                  ip_requests |-> [ip_requests EXCEPT ![<<ip, today>>] = @ + 1]]
       ELSE [verdict |-> "next", ip_requests |-> ip_requests]

\* Mutant: input moderation has no exemption for the trusted tag.
InputRejectedNoExemption(lastContent, user) == checkSensitive(lastContent)

\* Mutant: input moderation applies to logged-in identities only.
InputRejectedGuestsPass(lastContent, user) ==
  checkSensitive(lastContent) /\ user # Null /\ user.tag # "trusted"

\* Input moderation: flagged text is let through for the trusted tag only.
InputRejected(lastContent, user) ==
  checkSensitive(lastContent) /\ (IF user = Null THEN "" ELSE user.tag) # "trusted"

\* Mutant: the pre-check lets a counter of 0 through.
QuotaPreCheckOffByOne(model, user) ==
  IF model \in {"enhanced", "pro"} /\ user = Null THEN "login_required"
  ELSE IF model = "enhanced" /\ user # Null /\ user.quota_enhanced < 0
       THEN "quota_enhanced"
  ELSE IF model = "pro" /\ user # Null /\ user.quota_pro < 0
       THEN "quota_pro"
  ELSE ""

\* Mutant: the pro branch tests the enhanced counter.
QuotaPreCheckWrongTier(model, user) ==
  IF model \in {"enhanced", "pro"} /\ user = Null THEN "login_required"
  ELSE IF model = "enhanced" /\ user # Null /\ user.quota_enhanced <= 0
       THEN "quota_enhanced"
  ELSE IF model = "pro" /\ user # Null /\ user.quota_enhanced <= 0
       THEN "quota_pro"
  ELSE ""

\* The quota pre-check: "" when the turn may go on.
QuotaPreCheck(model, user) ==
  IF model \in {"enhanced", "pro"} /\ user = Null THEN "login_required"
  ELSE IF model = "enhanced" /\ user # Null /\ user.quota_enhanced <= 0
       THEN "quota_enhanced"
  ELSE IF model = "pro" /\ user # Null /\ user.quota_pro <= 0
       THEN "quota_pro"
  ELSE ""

\* The handler's rejections before the backend call, in source order.
PreStream(lastContent, model, user) ==
  IF InputRejected(lastContent, user) THEN "sensitive"
  ELSE IF ~apiKey THEN "no_api_key"
  ELSE IF QuotaPreCheck(model, user) # "" THEN QuotaPreCheck(model, user)
  ELSE "fetch"

Turn(ip, token, model, lastContent, conversationId, client, user, verdict) ==
  [ip |-> ip, date |-> today, token |-> token, model |-> model,
   lastContent |-> lastContent, conversationId |-> conversationId,
   client |-> client, user |-> user,
   pc |-> IF verdict = "fetch" THEN "fetch" ELSE "done",
   outcome |-> IF verdict = "fetch" THEN "pending" ELSE verdict,
   nev |-> 0, content |-> <<>>, usage |-> ZeroUsage, frames |-> <<>>,
   latencyMs |-> 0,
   aborted |-> FALSE,   \* the caller has closed the connection
   personaId |-> NoPersona, personaPrompt |-> NoPrompt, activePersona |-> Null,
   \* the web client's side of the turn: the text of its pending assistant
   \* message, the quota it applied, the frames it has read, its loop ended
   shown |-> <<>>, clientQuota |-> Null, clientRead |-> 0, clientDone |-> FALSE,
   buffer |-> <<>>,     \* let buffer: the unconsumed remainder of the body
   \* history: the bytes of response.body read so far, and where chunks ended
   body |-> <<>>, cuts |-> {},
   \* history: the turns that were in flight when this request arrived
   overlaps |-> {q \in 1..Len(turns) : turns[q].pc # "done"}]

\* What becomes of a turn when the catch's res.status(500).json(...) throws
\* because the stream headers are out. The rejection leaves the async
\* handler: Express 4 does not observe it, and Node either terminates the
\* process on the unhandled rejection ("crashed") or only warns, leaving the
\* response open for ever ("hung"); Express 5 hands it to the default error
\* handler, which destroys the socket ("reset").
Faults == {"crashed", "hung", "reset"}

\* The server process is running.
Serving == \A q \in 1..Len(turns) : turns[q].outcome # "crashed"

\* POST /api/chat/message up to `await fetch`: checkIpRules, then, if it
\* calls next(), the synchronous head of the handler.
ChatRequestWith(ip, token, model, lastContent, conversationId, client, personaId, personaPrompt) ==
  /\ Serving
  /\ LET admission == checkIpRules(ip)
         admitted == admission.verdict = "next"
         user == IF admitted THEN UserByToken(token) ELSE Null
         verdict == IF admitted THEN PreStream(lastContent, model, user)
                    ELSE admission.verdict
     IN /\ ip_requests' = admission.ip_requests
        /\ turns' = Append(turns,
                     [Turn(ip, token, model, lastContent, conversationId, client,
                           user, verdict)
                        EXCEPT !.personaId = personaId,
                               !.personaPrompt = personaPrompt,
                               !.activePersona =
                                  IF verdict = "fetch"
                                  THEN ActivePersona(personaId, personaPrompt)
                                  ELSE Null])
        /\ fetches' = IF verdict = "fetch" THEN fetches \cup {Len(turns) + 1}
                      ELSE fetches
  /\ UNCHANGED <<config, browser, today, clock, nanoid, users, sensitive_words, conversations,
                 messages, audit_logs, metrics_daily, metrics_traffic,
                 keywords_daily, adminOps>>

\* The request selects no persona.
ChatRequest(ip, token, model, lastContent, conversationId, client) ==
  ChatRequestWith(ip, token, model, lastContent, conversationId, client,
                  NoPersona, NoPrompt)

Awaiting(r, pc) == Serving /\ r \in 1..Len(turns) /\ turns[r].pc = pc

Finish(r, outcome) ==
  turns' = [turns EXCEPT ![r].pc = "done", ![r].outcome = outcome]

\* fetch rejects (network failure): the catch answers 500 / code 5.
FetchThrows(r) ==
  /\ Awaiting(r, "fetch")
  /\ Finish(r, "service_error")
  /\ UNCHANGED <<config, browser, today, clock, nanoid, tables, fetches, adminOps>>

\* Mutant: the upstream-error return also runs the quota commit.
FetchNotOkCommits(r) ==
  /\ Awaiting(r, "fetch")
  /\ Finish(r, "upstream")
  /\ users' = IF turns[r].user # Null /\ turns[r].user.user_id \in DOMAIN users
                  /\ turns[r].model = "enhanced"
               THEN [users EXCEPT ![turns[r].user.user_id].quota_enhanced =
                                     turns[r].user.quota_enhanced - 1]
               ELSE users
  /\ UNCHANGED <<config, browser, today, clock, nanoid, sensitive_words, ip_requests, conversations,
                 messages, audit_logs, metrics_daily, metrics_traffic,
                 keywords_daily, fetches, adminOps>>

\* Mutant: the upstream-error return gives the admission count back.
FetchNotOkRefunds(r) ==
  /\ Awaiting(r, "fetch")
  /\ Finish(r, "upstream")
  /\ ip_requests' = [ip_requests EXCEPT ![<<turns[r].ip, turns[r].date>>] =
                                         IF @ > 0 THEN @ - 1 ELSE @]
  /\ UNCHANGED <<config, browser, today, clock, nanoid, users, sensitive_words, conversations,
                 messages, audit_logs, metrics_daily, metrics_traffic,
                 keywords_daily, fetches, adminOps>>

\* !response.ok || !response.body: 500 / code 4, nothing committed.
FetchNotOk(r) ==
  /\ Awaiting(r, "fetch")
  /\ Finish(r, "upstream")
  /\ UNCHANGED <<config, browser, today, clock, nanoid, tables, fetches, adminOps>>

\* The backend answered with a body: the event-stream headers are set and
\* the read loop starts.
FetchOk(r) ==
  /\ Awaiting(r, "fetch")
  /\ turns' = [turns EXCEPT ![r].pc = "stream"]
  /\ UNCHANGED <<config, browser, today, clock, nanoid, tables, fetches, adminOps>>

ReadEvent(r) == Awaiting(r, "stream") /\ turns[r].nev < MaxEvents

\* A response.output_text.delta event with a non-empty delta.
StreamDelta(r, delta) ==
  /\ ReadEvent(r)
  /\ turns' = [turns EXCEPT ![r].nev = @ + 1,
                            ![r].content = @ \o delta,
                            ![r].frames = Append(@, [type |-> "delta", delta |-> delta])]
  /\ UNCHANGED <<config, browser, today, clock, nanoid, tables, fetches, adminOps>>

\* The response.completed event: usage = response.usage || usage.
StreamCompleted(r, u) ==
  /\ ReadEvent(r)
  /\ turns' = [turns EXCEPT ![r].nev = @ + 1,
                            ![r].usage = IF u = Null THEN @ ELSE u]
  /\ UNCHANGED <<config, browser, today, clock, nanoid, tables, fetches, adminOps>>

\* The literal [DONE] frame is written through.
StreamSentinel(r) ==
  /\ ReadEvent(r)
  /\ turns' = [turns EXCEPT ![r].nev = @ + 1,
                            ![r].frames = Append(@, [type |-> "sentinel"])]
  /\ UNCHANGED <<config, browser, today, clock, nanoid, tables, fetches, adminOps>>

\* Any other event type, or a frame JSON.parse rejects: ignored.
StreamOther(r) ==
  /\ ReadEvent(r)
  /\ turns' = [turns EXCEPT ![r].nev = @ + 1]
  /\ UNCHANGED <<config, browser, today, clock, nanoid, tables, fetches, adminOps>>

\* The read of the backend stream throws: control goes to the catch, whose
\* res.status(500).json(...) answers code 5 while nothing was written yet and
\* itself throws once a frame has gone out (the headers are sent).
StreamBreak(r) ==
  /\ Awaiting(r, "stream")
  /\ \E outcome \in IF turns[r].frames = <<>> THEN {"service_error"} ELSE Faults :
       Finish(r, outcome)
  /\ UNCHANGED <<config, browser, today, clock, nanoid, tables, fetches, adminOps>>

\* ------------------------------------------------ the read loop, byte level
\* The body of the backend response is text; the model keeps the characters
\* the loop looks at: the line feed, the space, the "data:" field name, the
\* literal [DONE], and the characters of the JSON texts "{" type delta "}"
\* with type D (response.output_text.delta), C (response.completed, carrying
\* a usage) or O (another type) and delta text a or b; "e" is the text of
\* another field line.
NL == "\n"

\* The frames the backend sends, each terminated by a blank line: two
\* output-text deltas (one under a field line), a delta event with no text,
\* the completion event, an event of another type, a frame whose data is no
\* JSON text, the literal [DONE], a frame with no data line.
DeltaFrameA == <<"data:", " ", "{", "D", "a", "}", NL, NL>>
DeltaFrameB == <<"e", NL, "data:", "{", "D", "b", "}", NL, NL>>
EmptyDeltaFrame == <<"data:", "{", "D", "}", NL, NL>>
CompletedFrame == <<"data:", "{", "C", "}", NL, NL>>
OtherFrame == <<"e", NL, "data:", " ", "{", "O", "}", " ", NL, NL>>
BrokenFrame == <<"data:", "{", "D", NL, NL>>
SentinelFrame == <<"data:", " ", "[DONE]", NL, NL>>
FieldFrame == <<"e", NL, NL>>

WireFrames ==
  {DeltaFrameA, DeltaFrameB, EmptyDeltaFrame, CompletedFrame, OtherFrame,
   BrokenFrame, SentinelFrame, FieldFrame}

RECURSIVE Concat(_)
Concat(seqs) == IF seqs = <<>> THEN <<>> ELSE Head(seqs) \o Concat(Tail(seqs))

\* The bodies the backend sends: up to MaxWireFrames frames.
WireBodies ==
  {Concat(fs) : fs \in UNION {[1..n -> WireFrames] : n \in 0..MaxWireFrames}}

\* String.prototype.split with a one- or two-character separator sep
RECURSIVE Split(_, _, _)
Split(text, sep, cur) ==
  IF text = <<>> THEN <<cur>>
  ELSE IF Len(text) >= Len(sep) /\ SubSeq(text, 1, Len(sep)) = sep
       THEN <<cur>> \o Split(SubSeq(text, Len(sep) + 1, Len(text)), sep, <<>>)
       ELSE Split(Tail(text), sep, Append(cur, Head(text)))

\* String.prototype.trim
RECURSIVE TrimStart(_)
TrimStart(text) ==
  IF text # <<>> /\ Head(text) \in {" ", NL} THEN TrimStart(Tail(text)) ELSE text

RECURSIVE TrimEnd(_)
TrimEnd(text) ==
  IF text # <<>> /\ text[Len(text)] \in {" ", NL}
  THEN TrimEnd(SubSeq(text, 1, Len(text) - 1)) ELSE text

Trim(text) == TrimEnd(TrimStart(text))

\* part.split("\n").find((l) => l.startsWith("data:")), Null for undefined
DataLine(part) ==
  LET lines == Split(part, <<NL>>, <<>>)
      hits == {i \in 1..Len(lines) : lines[i] # <<>> /\ Head(lines[i]) = "data:"}
  IN IF hits = {} THEN Null
     ELSE lines[CHOOSE i \in hits : \A j \in hits : i <= j]

\* line.replace("data:", "").trim(), for a line that starts with "data:"
DataText(line) == Trim(Tail(line))

\* JSON.parse(dataText): the value, or Null where it throws
ParseJson(dataText) ==
  IF dataText \in {<<"{", "D", d, "}">> : d \in {"a", "b"}}
  THEN [type |-> "response.output_text.delta", delta |-> <<dataText[3]>>, usage |-> Null]
  ELSE IF dataText = <<"{", "D", "}">>
  THEN [type |-> "response.output_text.delta", delta |-> <<>>, usage |-> Null]
  ELSE IF dataText = <<"{", "C", "}">>
  THEN [type |-> "response.completed", delta |-> <<>>,
        usage |-> CHOOSE u \in Usages : TRUE]
  ELSE IF dataText = <<"{", "O", "}">>
  THEN [type |-> "response.created", delta |-> <<>>, usage |-> Null]
  ELSE Null

\* Mutant: a delta is written to the caller and not added to content.
RelayPartSkipsContent(st, part) ==
  LET line == DataLine(part)
  IN IF line = Null THEN st
     ELSE IF DataText(line) = <<"[DONE]">>
     THEN [st EXCEPT !.frames = Append(@, [type |-> "sentinel"])]
     ELSE LET payloadData == ParseJson(DataText(line))
          IN IF payloadData = Null THEN st
             ELSE IF payloadData.type = "response.output_text.delta"
                     /\ payloadData.delta # <<>>
             THEN [st EXCEPT !.frames = Append(@, [type |-> "delta",
                                                   delta |-> payloadData.delta])]
             ELSE IF payloadData.type = "response.completed"
                     /\ payloadData.usage # Null
             THEN [st EXCEPT !.usage = payloadData.usage]
             ELSE st

\* The body of `for (const part of parts)`, on the loop's variables
\* st = [buffer, content, usage, frames].
RelayPart(st, part) ==
  LET line == DataLine(part)
  IN IF line = Null THEN st
     ELSE IF DataText(line) = <<"[DONE]">>
     THEN [st EXCEPT !.frames = Append(@, [type |-> "sentinel"])]
     ELSE LET payloadData == ParseJson(DataText(line))
          IN IF payloadData = Null THEN st
             ELSE IF payloadData.type = "response.output_text.delta"
                     /\ payloadData.delta # <<>>
             THEN [st EXCEPT !.content = @ \o payloadData.delta,
                             !.frames = Append(@, [type |-> "delta",
                                                   delta |-> payloadData.delta])]
             ELSE IF payloadData.type = "response.completed"
                     /\ payloadData.usage # Null
             THEN [st EXCEPT !.usage = payloadData.usage]
             ELSE st

RECURSIVE RelayParts(_, _)
RelayParts(st, parts) ==
  IF parts = <<>> THEN st ELSE RelayParts(RelayPart(st, Head(parts)), Tail(parts))

\* Mutant: the remainder after the last separator is not carried over.
RelayChunkDropsRemainder(st, chunk) ==
  LET parts == Split(chunk, <<NL, NL>>, <<>>)
  IN RelayParts([st EXCEPT !.buffer = parts[Len(parts)]],
                SubSeq(parts, 1, Len(parts) - 1))

\* The body of `for await (const chunk of response.body)`:
\* buffer += text; parts = buffer.split("\n\n"); buffer = parts.pop() || "".
RelayChunk(st, chunk) ==
  LET parts == Split(st.buffer \o chunk, <<NL, NL>>, <<>>)
  IN RelayParts([st EXCEPT !.buffer = parts[Len(parts)]],
                SubSeq(parts, 1, Len(parts) - 1))

\* The loop's variables before the first chunk.
RelayStart == [buffer |-> <<>>, content |-> <<>>, usage |-> ZeroUsage, frames |-> <<>>]

\* Where a chunk ends in the body s when it ends after its n-th character.
CutKind(s, n) ==
  IF SubSeq(s, 1, n) \in WireBodies THEN "boundary"
  ELSE IF s[n] = NL /\ s[n + 1] = NL THEN "separator"
  ELSE "frame"

\* The next chunk of the backend body arrives: the body s read so far and
\* still to come is one the backend sends, the chunk runs to its n-th
\* character.
StreamChunk(r) ==
  /\ Awaiting(r, "stream")
  /\ \E s \in WireBodies : \E n \in (Len(turns[r].body) + 1)..Len(s) :
       /\ SubSeq(s, 1, Len(turns[r].body)) = turns[r].body
       /\ LET t == turns[r]
              chunk == SubSeq(s, Len(t.body) + 1, n)
              st == RelayChunk([buffer |-> t.buffer, content |-> t.content,
                                usage |-> t.usage, frames |-> t.frames], chunk)
          IN turns' = [turns EXCEPT ![r].body = @ \o chunk,
                                    ![r].cuts = @ \cup {CutKind(s, n)},
                                    ![r].buffer = st.buffer,
                                    ![r].content = st.content,
                                    ![r].usage = st.usage,
                                    ![r].frames = st.frames]
  /\ UNCHANGED <<config, browser, today, clock, nanoid, tables, fetches, adminOps>>

\* ---------------------------------------------------- the post-stream block
\* Math.round(n / d) for n >= 0, d > 0
Round(n, d) == (2 * n + d) \div (2 * d)

ZeroDaily == [total_requests |-> 0, avg_latency |-> 0, token_total |-> 0,
              concurrent_peak |-> 0]

\* Mutant: the running mean is truncated and the peak counts the turns.
DailyAfterTruncates(existingDaily, latencyMs, usage) ==
  [total_requests |-> existingDaily.total_requests + 1,
   avg_latency |-> (existingDaily.avg_latency * existingDaily.total_requests
                    + latencyMs) \div (existingDaily.total_requests + 1),
   token_total |-> existingDaily.token_total + usage.total_tokens,
   concurrent_peak |-> existingDaily.concurrent_peak + 1]

\* The daily metric row written by upsertMetric for a turn.
DailyAfter(existingDaily, latencyMs, usage) ==
  [total_requests |-> existingDaily.total_requests + 1,
   avg_latency |-> Round(existingDaily.avg_latency * existingDaily.total_requests
                         + latencyMs, existingDaily.total_requests + 1),
   token_total |-> existingDaily.token_total + usage.total_tokens,
   concurrent_peak |-> IF existingDaily.concurrent_peak > 1
                       THEN existingDaily.concurrent_peak ELSE 1]

\* Mutant: the row is written as if it were new.
BumpInsertOnly(table, key) == (key :> 1) @@ table

\* SELECT count; INSERT 1 when there is no row, else UPDATE count + 1
Bump(table, key) == (key :> (Get(table, key, 0) + 1)) @@ table

\* updateTrafficMetric for device and region when supplied, and for the
\* fixed source key.
TrafficAfter(client) ==
  LET t1 == IF client.device # "" THEN Bump(metrics_traffic, <<today, "device", client.device>>)
            ELSE metrics_traffic
      t2 == IF client.region # "" THEN Bump(t1, <<today, "region", client.region>>)
            ELSE t1
  IN Bump(t2, <<today, "source", "direct">>)

RECURSIVE BumpAll(_, _)
BumpAll(table, tokens) ==
  IF tokens = <<>> THEN table
  ELSE BumpAll(Bump(table, <<today, Head(tokens)>>), Tail(tokens))

\* updateKeywordMetric
KeywordsAfter(lastContent) == BumpAll(keywords_daily, KeywordTokens(lastContent))

\* Mutant: the commit decrements the stored counter (SET quota = quota - 1).
QuotaCommitStored(model, user) ==
  IF user # Null /\ user.user_id \in DOMAIN users
  THEN IF model = "enhanced"
       THEN [users EXCEPT ![user.user_id].quota_enhanced = @ - 1]
       ELSE IF model = "pro"
       THEN [users EXCEPT ![user.user_id].quota_pro = @ - 1]
       ELSE users
  ELSE users

\* The quota commit: UPDATE users ... WHERE user_id = ?, with the value read
\* when the turn resolved its identity, minus one.
QuotaCommit(model, user) ==
  IF user # Null /\ user.user_id \in DOMAIN users
  THEN IF model = "enhanced"
       THEN [users EXCEPT ![user.user_id].quota_enhanced = user.quota_enhanced - 1]
       ELSE IF model = "pro"
       THEN [users EXCEPT ![user.user_id].quota_pro = user.quota_pro - 1]
       ELSE users
  ELSE users

\* Mutant: the re-screening announces the replacement but keeps the text.
ScreenedKeepsText(content) == content

\* The text persisted and sent for the turn after output re-screening.
Screened(content) == IF checkSensitive(content) THEN Refusal ELSE content

\* The frame written when the output is replaced.
ReplaceFrames(content) ==
  IF checkSensitive(content)
  THEN <<[type |-> "replace", content |-> Refusal]>>
  ELSE <<>>

\* req.body.conversationId || nanoid(8)
ConvIdOf(t) == IF t.conversationId # NoConv THEN t.conversationId ELSE nanoid + 1

\* user?.user_id || null
UserIdOf(t) == IF t.user = Null THEN NullId ELSE t.user.user_id

ConversationsAfter(t) ==
  IF ConvIdOf(t) \in DOMAIN conversations THEN conversations
  ELSE (ConvIdOf(t) :> [user_id |-> UserIdOf(t), model |-> t.model]) @@ conversations

\* Mutant: the assistant row is inserted before the user row.
MessagesOfAssistantFirst(r, t) ==
  <<[turn |-> r, conversation_id |-> ConvIdOf(t), role |-> "assistant",
     created_at |-> clock, content |-> Screened(t.content),
     usage_prompt |-> t.usage.input_tokens,
     usage_completion |-> t.usage.output_tokens]>>
  \o (IF t.lastContent # <<>>
      THEN <<[turn |-> r, conversation_id |-> ConvIdOf(t), role |-> "user",
              created_at |-> clock, content |-> t.lastContent,
              usage_prompt |-> 0, usage_completion |-> 0]>>
      ELSE <<>>)

\* Mutant: no assistant row is inserted for an empty reply.
MessagesOfSkipsEmptyReply(r, t) ==
  (IF t.lastContent # <<>>
   THEN <<[turn |-> r, conversation_id |-> ConvIdOf(t), role |-> "user",
           created_at |-> clock, content |-> t.lastContent, usage_prompt |-> 0, usage_completion |-> 0]>>
   ELSE <<>>)
  \o (IF t.content # <<>>
      THEN <<[turn |-> r, conversation_id |-> ConvIdOf(t), role |-> "assistant",
              created_at |-> clock, content |-> Screened(t.content), usage_prompt |-> t.usage.input_tokens,
              usage_completion |-> t.usage.output_tokens]>>
      ELSE <<>>)

\* The rows inserted into messages for turn r: the user message when the
\* latest user content is non-empty, then the assistant message.
MessagesOf(r, t) ==
  (IF t.lastContent # <<>>
   THEN <<[turn |-> r, conversation_id |-> ConvIdOf(t), role |-> "user",
           created_at |-> clock, content |-> t.lastContent, usage_prompt |-> 0, usage_completion |-> 0]>>
   ELSE <<>>)
  \o <<[turn |-> r, conversation_id |-> ConvIdOf(t), role |-> "assistant",
        created_at |-> clock, content |-> Screened(t.content), usage_prompt |-> t.usage.input_tokens,
        usage_completion |-> t.usage.output_tokens]>>

LogOf(r, t, latencyMs) ==
  [turn |-> r, user_id |-> UserIdOf(t), ip |-> t.ip, ua |-> t.client.ua,
   action |-> "chat", content |-> Slice(t.lastContent, 120), latency_ms |-> latencyMs]

\* quotaLeft of the terminal frame, read back after the commit.
QuotaLeft(t, usersNow) ==
  IF t.user # Null /\ t.user.user_id \in DOMAIN usersNow
  THEN [enhanced |-> usersNow[t.user.user_id].quota_enhanced,
        pro |-> usersNow[t.user.user_id].quota_pro]
  ELSE defaultQuotas

DoneFrame(t, usersNow) ==
  [type |-> "done",
   usage |-> [prompt |-> t.usage.input_tokens, completion |-> t.usage.output_tokens,
              total |-> t.usage.total_tokens],
   quotaLeft |-> QuotaLeft(t, usersNow)]

\* The backend stream ended: re-screening, metrics, quota commit, persistence,
\* audit entry and terminal frame run without suspension.
StreamEnd(r, latencyMs) ==
  /\ Awaiting(r, "stream")
  /\ LET t == turns[r]
     IN /\ metrics_daily' = (today :> DailyAfter(Get(metrics_daily, today, ZeroDaily),
                                                 latencyMs, t.usage)) @@ metrics_daily
        /\ metrics_traffic' = TrafficAfter(t.client)
        /\ keywords_daily' = KeywordsAfter(t.lastContent)
        /\ users' = QuotaCommit(t.model, t.user)
        /\ nanoid' = IF t.conversationId # NoConv THEN nanoid ELSE nanoid + 1
        /\ conversations' = ConversationsAfter(t)
        /\ messages' = messages \o MessagesOf(r, t)
        /\ audit_logs' = Append(audit_logs, LogOf(r, t, latencyMs))
        /\ turns' = [turns EXCEPT ![r].pc = "done", ![r].outcome = "ok",
                       ![r].content = Screened(t.content),
                       ![r].latencyMs = latencyMs,
                       ![r].frames = @ \o ReplaceFrames(t.content)
                                       \o <<DoneFrame(t, users')>>]
  /\ UNCHANGED <<config, browser, today, clock, sensitive_words, ip_requests, fetches, adminOps>>

\* ------------------------------- the post-stream block, statement by statement
\* The positions of a turn inside the post-stream block: the statement group
\* it runs next. The block is synchronous, so while a turn is at one of these
\* positions no other handler runs.
PostPcs == {"metrics", "quota", "persist", "audit", "final"}

InPostStream == \E q \in 1..Len(turns) : turns[q].pc \in PostPcs

\* The stream ended: latency taken, output re-screened, replacement written.
StepRescreen(r, latencyMs) ==
  /\ Awaiting(r, "stream")
  /\ turns' = [turns EXCEPT ![r].pc = "metrics", ![r].latencyMs = latencyMs,
                            ![r].frames = @ \o ReplaceFrames(turns[r].content)]
  /\ UNCHANGED <<config, browser, today, clock, nanoid, tables, fetches, adminOps>>

\* Mutant: the quota commit is made together with the metrics update.
StepMetricsCommits(r) ==
  /\ Awaiting(r, "metrics")
  /\ LET t == turns[r]
     IN /\ metrics_daily' = (today :> DailyAfter(Get(metrics_daily, today, ZeroDaily),
                                                 t.latencyMs, t.usage)) @@ metrics_daily
        /\ metrics_traffic' = TrafficAfter(t.client)
        /\ keywords_daily' = KeywordsAfter(t.lastContent)
        /\ users' = QuotaCommit(t.model, t.user)
  /\ turns' = [turns EXCEPT ![r].pc = "quota"]
  /\ UNCHANGED <<config, browser, today, clock, nanoid, sensitive_words, ip_requests,
                 conversations, messages, audit_logs, fetches, adminOps>>

\* upsertMetric, updateTrafficMetric, updateKeywordMetric
StepMetrics(r) ==
  /\ Awaiting(r, "metrics")
  /\ LET t == turns[r]
     IN /\ metrics_daily' = (today :> DailyAfter(Get(metrics_daily, today, ZeroDaily),
                                                 t.latencyMs, t.usage)) @@ metrics_daily
        /\ metrics_traffic' = TrafficAfter(t.client)
        /\ keywords_daily' = KeywordsAfter(t.lastContent)
  /\ turns' = [turns EXCEPT ![r].pc = "quota"]
  /\ UNCHANGED <<config, browser, today, clock, nanoid, users, sensitive_words, ip_requests,
                 conversations, messages, audit_logs, fetches, adminOps>>

\* The quota commit.
StepQuota(r) ==
  /\ Awaiting(r, "quota")
  /\ users' = QuotaCommit(turns[r].model, turns[r].user)
  /\ turns' = [turns EXCEPT ![r].pc = "persist"]
  /\ UNCHANGED <<config, browser, today, clock, nanoid, sensitive_words, ip_requests,
                 conversations, messages, audit_logs, metrics_daily,
                 metrics_traffic, keywords_daily, fetches, adminOps>>

\* The conversation row if absent, then the message rows.
StepPersist(r) ==
  /\ Awaiting(r, "persist")
  /\ LET t == turns[r]
     IN /\ nanoid' = IF t.conversationId # NoConv THEN nanoid ELSE nanoid + 1
        /\ conversations' = ConversationsAfter(t)
        /\ messages' = messages \o MessagesOf(r, t)
  /\ turns' = [turns EXCEPT ![r].pc = "audit"]
  /\ UNCHANGED <<config, browser, today, clock, users, sensitive_words, ip_requests,
                 audit_logs, metrics_daily, metrics_traffic, keywords_daily,
                 fetches, adminOps>>

\* addLog
StepAudit(r) ==
  /\ Awaiting(r, "audit")
  /\ audit_logs' = Append(audit_logs, LogOf(r, turns[r], turns[r].latencyMs))
  /\ turns' = [turns EXCEPT ![r].pc = "final"]
  /\ UNCHANGED <<config, browser, today, clock, nanoid, users, sensitive_words, ip_requests,
                 conversations, messages, metrics_daily, metrics_traffic,
                 keywords_daily, fetches, adminOps>>

\* The terminal frame and res.end().
StepFinal(r) ==
  /\ Awaiting(r, "final")
  /\ turns' = [turns EXCEPT ![r].pc = "done", ![r].outcome = "ok",
                            ![r].content = Screened(turns[r].content),
                            ![r].frames = Append(@, DoneFrame(turns[r], users))]
  /\ UNCHANGED <<config, browser, today, clock, nanoid, tables, fetches, adminOps>>

\* ------------------------------------------------- identities and the clock
\* POST /api/auth/login: the row is created on first sight of the token.
Login(token) ==
  /\ Serving
  /\ token # NoToken
  /\ ~\E id \in DOMAIN users : users[id].token = token
  /\ nanoid' = nanoid + 1
  /\ users' = ((nanoid + 1) :>
                 [token |-> token, tag |-> "",
                  quota_enhanced |-> defaultQuotas.enhanced,
                  quota_pro |-> defaultQuotas.pro]) @@ users
  /\ UNCHANGED <<config, browser, today, clock, sensitive_words, ip_requests, conversations,
                 messages, audit_logs, metrics_daily, metrics_traffic,
                 keywords_daily, turns, fetches, adminOps>>

\* POST /api/admin/users/:id/recharge
AdminRecharge(id, enhanced, pro) ==
  /\ Serving
  /\ adminOps < MaxAdminOps
  /\ id \in DOMAIN users
  /\ users' = [users EXCEPT ![id].quota_enhanced = @ + enhanced,
                            ![id].quota_pro = @ + pro]
  /\ adminOps' = adminOps + 1
  /\ UNCHANGED <<config, browser, today, clock, nanoid, sensitive_words, ip_requests, conversations,
                 messages, audit_logs, metrics_daily, metrics_traffic,
                 keywords_daily, turns, fetches>>

\* PUT /api/admin/users/:id
AdminEditUser(id, tag, quotaEnhanced, quotaPro) ==
  /\ Serving
  /\ adminOps < MaxAdminOps
  /\ id \in DOMAIN users
  /\ users' = [users EXCEPT ![id].tag = tag,
                            ![id].quota_enhanced = quotaEnhanced,
                            ![id].quota_pro = quotaPro]
  /\ adminOps' = adminOps + 1
  /\ UNCHANGED <<config, browser, today, clock, nanoid, sensitive_words, ip_requests, conversations,
                 messages, audit_logs, metrics_daily, metrics_traffic,
                 keywords_daily, turns, fetches>>

\* POST /api/admin/sensitive-words
AdminAddWord(word) ==
  /\ Serving
  /\ word # <<>>
  /\ word \notin sensitive_words
  /\ sensitive_words' = sensitive_words \cup {word}
  /\ UNCHANGED <<config, browser, today, clock, nanoid, users, ip_requests, conversations,
                 messages, audit_logs, metrics_daily, metrics_traffic,
                 keywords_daily, turns, fetches, adminOps>>

\* Midnight (UTC): getToday() moves to the next date.
Tick ==
  /\ today < MaxDate
  /\ today' = today + 1
  /\ UNCHANGED <<config, browser, clock, nanoid, tables, turns, fetches, adminOps>>

\* DELETE /api/admin/personas/:id
AdminDeletePersona(id) ==
  /\ Serving
  /\ id \in DOMAIN personas
  /\ personas' = [p \in DOMAIN personas \ {id} |-> personas[p]]
  /\ UNCHANGED <<apiKey, ip_rules, browser, today, clock, nanoid, tables, turns,
                 fetches, adminOps>>

\* Time passes: nowIso() moves to the next millisecond.
Elapse ==
  /\ clock < MaxClock
  /\ clock' = clock + 1
  /\ UNCHANGED <<config, browser, today, nanoid, tables, turns, fetches, adminOps>>

\* The caller aborts its request (the client's stop button): the connection
\* closes. The handler registers no listener for it and passes no signal to
\* fetch, so nothing in the handler reacts.
Abort(r) ==
  /\ Serving
  /\ r \in 1..Len(turns) /\ turns[r].pc # "done" /\ ~turns[r].aborted
  /\ turns' = [turns EXCEPT ![r].aborted = TRUE]
  /\ UNCHANGED <<config, browser, today, clock, nanoid, tables, fetches, adminOps>>

\* ------------------------------------------------- the web client's reader
\* The body of the client's `for (const part of parts)` for one frame the
\* server wrote, on cs = [shown, clientQuota, completed].
ClientFrame(cs, frame) ==
  IF frame.type = "sentinel" THEN [cs EXCEPT !.completed = TRUE]
  ELSE IF frame.type = "delta" THEN [cs EXCEPT !.shown = @ \o frame.delta]
  ELSE IF frame.type = "replace" THEN [cs EXCEPT !.shown = frame.content]
  ELSE IF frame.type = "done"
  THEN [cs EXCEPT !.clientQuota = frame.quotaLeft, !.completed = TRUE]
  ELSE cs

RECURSIVE ClientFrames(_, _)
ClientFrames(cs, frames) ==
  IF frames = <<>> THEN cs
  ELSE ClientFrames(ClientFrame(cs, Head(frames)), Tail(frames))

\* One iteration of the client's `while (!completed)`: reader.read() returns
\* a chunk holding the next n frames the server wrote; all its frames are
\* handled, then the loop ends if one of them set `completed`.
ClientRead(r) ==
  /\ r \in 1..Len(turns)
  /\ ~turns[r].clientDone /\ ~turns[r].aborted
  /\ \E n \in 1..(Len(turns[r].frames) - turns[r].clientRead) :
       LET t == turns[r]
           cs == ClientFrames([shown |-> t.shown, clientQuota |-> t.clientQuota,
                               completed |-> FALSE],
                              SubSeq(t.frames, t.clientRead + 1, t.clientRead + n))
       IN turns' = [turns EXCEPT ![r].shown = cs.shown,
                                 ![r].clientQuota = cs.clientQuota,
                                 ![r].clientRead = @ + n,
                                 ![r].clientDone = cs.completed]
  /\ UNCHANGED <<config, browser, today, clock, nanoid, tables, fetches, adminOps>>

\* ------------------------------------------- the web client's send and stop
\* The server's side is left alone by the client's handlers.
ServerUnchanged ==
  UNCHANGED <<config, today, clock, nanoid, tables, turns, fetches, adminOps>>

\* The sends whose chat request has been issued and has not settled.
Requesting == {s \in 1..Len(sends) : sends[s].pc = "request"}

\* handleSend with a non-empty text and an active conversation: it returns
\* at once while isTyping; otherwise it sets isTyping and, when the
\* conversation holds more than 18 messages (long), awaits the compression
\* request; without that wait it goes on, with no event in between, to
\* create the AbortController, store it in the ref and issue the request.
handleSend(content, long) ==
  /\ Len(sends) < MaxSends
  /\ content # ""
  /\ ~isTyping
  /\ isTyping' = TRUE
  /\ sends' = Append(sends, [content |-> content,
                             pc |-> IF long THEN "compress" ELSE "request"])
  /\ abortControllerRef' = IF long THEN abortControllerRef ELSE Len(sends) + 1
  /\ ServerUnchanged

\* handleRetry of the reply to send s: returns while isTyping, else calls
\* handleSend with the content of the user message before that reply.
handleRetry(s, long) ==
  /\ s \in 1..Len(sends)
  /\ handleSend(sends[s].content, long)

\* The compression request of send s answers (or fails: the catch ignores
\* it): the AbortController is created and stored, the request is issued.
Compressed(s) ==
  /\ s \in 1..Len(sends) /\ sends[s].pc = "compress"
  /\ sends' = [sends EXCEPT ![s].pc = "request"]
  /\ abortControllerRef' = s
  /\ UNCHANGED isTyping
  /\ ServerUnchanged

\* The finally block of send s.
Finally(s) ==
  /\ sends' = [sends EXCEPT ![s].pc = "done"]
  /\ isTyping' = FALSE
  /\ abortControllerRef' = 0

\* The request of send s completes or fails.
Settled(s) ==
  /\ s \in Requesting
  /\ Finally(s)
  /\ ServerUnchanged

\* handleStop (the button is shown while isTyping): aborts the controller
\* in the ref, if there is one, and clears isTyping. The abort rejects the
\* pending fetch or read of that request, whose catch and finally run
\* before the next event.
handleStop ==
  /\ isTyping
  /\ IF abortControllerRef \in Requesting
     THEN Finally(abortControllerRef)
     ELSE isTyping' = FALSE /\ UNCHANGED <<abortControllerRef, sends>>
  /\ ServerUnchanged

\* ------------------------------------------------ reading a conversation
\* ORDER BY created_at ASC over rows scanned in rowid (insertion) order: the
\* row goes after the rows of `sorted` that are not later than it.
InsertByCreatedAt(sorted, row) ==
  LET k == Cardinality({i \in 1..Len(sorted) : sorted[i].created_at <= row.created_at})
  IN SubSeq(sorted, 1, k) \o <<row>> \o SubSeq(sorted, k + 1, Len(sorted))

RECURSIVE OrderByCreatedAt(_)
OrderByCreatedAt(rows) ==
  IF rows = <<>> THEN <<>>
  ELSE InsertByCreatedAt(OrderByCreatedAt(SubSeq(rows, 1, Len(rows) - 1)),
                         rows[Len(rows)])

\* SELECT * FROM messages WHERE conversation_id = ? ORDER BY created_at ASC
MessagesIn(msgs, id) ==
  OrderByCreatedAt(SelectSeq(msgs, LAMBDA m : m.conversation_id = id))

\* GET /api/chat/conversations/:id against the tables convs and msgs.
GetConversationIn(convs, msgs, id) ==
  IF id \in DOMAIN convs
  THEN [code |-> 0, conversation |-> convs[id], messages |-> MessagesIn(msgs, id)]
  ELSE [code |-> 1, conversation |-> Null, messages |-> <<>>]

GetConversation(id) == GetConversationIn(conversations, messages, id)

\* ------------------------------------------------- removal of an identity
\* The conversations whose user_id is id.
OwnedBy(id) == {c \in DOMAIN conversations : conversations[c].user_id = id}

\* DELETE /api/admin/users/:id
AdminDeleteUser(id) ==
  /\ Serving
  /\ adminOps < MaxAdminOps
  /\ id \in DOMAIN users
  /\ messages' = SelectSeq(messages, LAMBDA m : m.conversation_id \notin OwnedBy(id))
  /\ conversations' = [c \in DOMAIN conversations \ OwnedBy(id) |-> conversations[c]]
  /\ users' = [u \in DOMAIN users \ {id} |-> users[u]]
  /\ adminOps' = adminOps + 1
  /\ UNCHANGED <<config, browser, today, clock, nanoid, sensitive_words, ip_requests,
                 audit_logs, metrics_daily, metrics_traffic, keywords_daily,
                 turns, fetches>>

\* ------------------------------------------------- vocabulary of the claims
Premium == {"enhanced", "pro"}

\* The counter of a tier in a users row or an identity snapshot.
Quota(row, tier) == IF tier = "enhanced" THEN row.quota_enhanced ELSE row.quota_pro

TurnIds == 1..Len(turns)

\* The step is the arrival of request r.
Arrives(r) == Len(turns') = Len(turns) + 1 /\ r = Len(turns')

\* The step is the post-stream block of turn r.
Completes(r) == r \in TurnIds /\ turns[r].pc = "stream" /\ turns'[r].outcome = "ok"

\* Turns a and b were in flight at the same time.
Overlap(a, b) == a \in turns[b].overlaps \/ b \in turns[a].overlaps

\* Two turns of one identity for one premium tier that overlapped, saw the
\* same counter value in their pre-checks, and both committed.
RacedPair(a, b) ==
  /\ a # b /\ Overlap(a, b)
  /\ turns[a].user # Null /\ turns[b].user # Null
  /\ turns[a].user.user_id = turns[b].user.user_id
  /\ turns[a].model \in Premium /\ turns[a].model = turns[b].model
  /\ Quota(turns[a].user, turns[a].model) = Quota(turns[b].user, turns[b].model)

\* ---------------------------------------------------------- specification
Client == [device |-> "mobile", region |-> "", ua |-> "ua"]

\* Chat requests with inputs drawn from the domains D of a specification.
Requests(D) ==
  \E ip \in D.ips, token \in D.tokens, model \in D.tiers,
     lastContent \in D.contents, conversationId \in D.convs :
    /\ Len(turns) < D.maxReq
    /\ ChatRequest(ip, token, model, lastContent, conversationId, Client)

\* --- the usage ledger: one identity and guests, all tiers, overlapping
\* turns, logins, recharges and edits
Ledger ==
  [maxReq |-> MaxReq, ips |-> {"ip1"}, tokens |-> {NoToken, "t1"},
   tiers |-> Tiers, contents |-> {<<"a">>}, convs |-> {NoConv}]

InitLedger ==
  /\ apiKey = TRUE
  /\ ip_rules = {}
  /\ InitTables

NextLedger ==
  \/ Requests(Ledger)
  \/ \E r \in 1..Len(turns) : FetchNotOk(r)
  \/ \E r \in 1..Len(turns) : FetchOk(r)
  \/ \E r \in 1..Len(turns) : StreamEnd(r, 10)
  \/ Login("t1")
  \/ \E id \in DOMAIN users, e \in {0, 1} : AdminRecharge(id, e, 1 - e)
  \/ \E id \in DOMAIN users : AdminEditUser(id, "", 0, 0)

SpecLedger == InitLedger /\ [][NextLedger]_vars

\* --- runs without overlapping turns: a request arrives only when no turn is
\* in flight; every kind of rejection and upstream failure can occur
Sequential ==
  [maxReq |-> MaxSeqReq, ips |-> {"ip1"}, tokens |-> {NoToken, "t1"},
   tiers |-> Tiers, contents |-> {<<"a", "b">>}, convs |-> {NoConv}]

InitSequential ==
  /\ apiKey \in BOOLEAN
  /\ ip_rules \in {{}, {[ip |-> "ip1", type |-> "limit", limit_value |-> 1]}}
  /\ InitTables

NextSequential ==
  \/ (\A q \in 1..Len(turns) : turns[q].pc = "done") /\ Requests(Sequential)
  \/ \E r \in 1..Len(turns) : FetchThrows(r)
  \/ \E r \in 1..Len(turns) : FetchNotOk(r)
  \/ \E r \in 1..Len(turns) : FetchOk(r)
  \/ \E r \in 1..Len(turns) : StreamBreak(r)
  \/ \E r \in 1..Len(turns) : StreamEnd(r, 10)
  \/ Login("t1")
  \/ AdminAddWord(<<"a", "b">>)

SpecSequential == InitSequential /\ [][NextSequential]_vars

\* --- admission: two addresses, the rules of "ip1" fixed for the run, guests
\* whose turns succeed, are rejected or fail upstream one after the other,
\* and the clock
Admission ==
  [maxReq |-> MaxAdmissionReq, ips |-> Ips, tokens |-> {NoToken},
   tiers |-> {"normal", "pro"}, contents |-> {<<"a">>}, convs |-> {NoConv}]

InitAdmission ==
  /\ apiKey = TRUE
  /\ ip_rules \in {t \in RuleTables : \A row \in t : row.ip = "ip1"}
  /\ InitTables

NextAdmission ==
  \/ (\A q \in 1..Len(turns) : turns[q].pc = "done") /\ Requests(Admission)
  \/ \E r \in 1..Len(turns) : FetchNotOk(r)
  \/ \E r \in 1..Len(turns) : FetchOk(r)
  \/ \E r \in 1..Len(turns) : StreamEnd(r, 10)
  \/ Tick

SpecAdmission == InitAdmission /\ [][NextAdmission]_vars

\* --- output moderation: guests' normal turns whose deltas can spell a word
\* of the list, which the administrator may extend at any moment
Moderation ==
  [maxReq |-> MaxModerationReq, ips |-> {"ip1"}, tokens |-> {NoToken},
   tiers |-> {"normal"}, contents |-> {<<>>, <<"a">>}, convs |-> {NoConv}]

InitModeration ==
  /\ apiKey = TRUE
  /\ ip_rules = {}
  /\ InitTables

NextModeration ==
  \/ Requests(Moderation)
  \/ \E r \in 1..Len(turns) : FetchOk(r)
  \/ \E r \in 1..Len(turns), delta \in Deltas : StreamDelta(r, delta)
  \/ \E r \in 1..Len(turns), u \in Usages : StreamCompleted(r, u)
  \/ \E r \in 1..Len(turns) : StreamSentinel(r)
  \/ \E r \in 1..Len(turns) : StreamOther(r)
  \/ \E r \in 1..Len(turns) : StreamBreak(r)
  \/ \E r \in 1..Len(turns) : StreamEnd(r, 10)
  \/ \E word \in WordList : AdminAddWord(word)

SpecModeration == InitModeration /\ [][NextModeration]_vars

\* --- the relay as a whole: every rejection before the backend call, the
\* backend's failures, a trusted identity, an address that may be blocked or
\* limited
Relay ==
  [maxReq |-> MaxReq, ips |-> {"ip1"}, tokens |-> {NoToken, "t1"},
   tiers |-> Tiers, contents |-> {<<"a", "b">>}, convs |-> {NoConv}]

Init ==
  /\ apiKey \in BOOLEAN
  /\ ip_rules \in {{}, {[ip |-> "ip1", type |-> "block", limit_value |-> 0]},
                   {[ip |-> "ip1", type |-> "limit", limit_value |-> 1]}}
  /\ InitTables

Next ==
  \/ Requests(Relay)
  \/ \E r \in 1..Len(turns) : FetchThrows(r)
  \/ \E r \in 1..Len(turns) : FetchNotOk(r)
  \/ \E r \in 1..Len(turns) : FetchOk(r)
  \/ \E r \in 1..Len(turns) : StreamBreak(r)
  \/ \E r \in 1..Len(turns) : StreamEnd(r, 10)
  \/ Login("t1")
  \/ \E id \in DOMAIN users : AdminEditUser(id, "trusted", 0, 1)
  \/ AdminAddWord(<<"a", "b">>)

Spec == Init /\ [][Next]_vars

\* C1: in every reachable state both quota counters of every identity are
\* >= 0, whatever the interleaving of turns, logins, recharges and edits.
C1_QuotaNeverNegative ==
  \A id \in DOMAIN users : users[id].quota_enhanced >= 0 /\ users[id].quota_pro >= 0

\* C1 witness: two overlapping pro turns of one identity both passed the
\* pre-check at 1 and both committed.
C1_Witness ==
  \E a, b \in TurnIds :
    /\ RacedPair(a, b) /\ turns[a].model = "pro" /\ turns[a].user.quota_pro = 1
    /\ turns[a].outcome = "ok" /\ turns[b].outcome = "ok"
    /\ users[turns[a].user.user_id].quota_pro = 0

\* C3 (as stated): after the commits of two raced turns the counter is two
\* below the value their pre-checks saw.
C3_Original ==
  [][\A a, b \in TurnIds :
       (Completes(b) /\ RacedPair(a, b) /\ turns[a].outcome = "ok"
        /\ turns[b].user.user_id \in DOMAIN users)
       => Quota(users'[turns[b].user.user_id], turns[b].model)
            = Quota(turns[b].user, turns[b].model) - 2]_vars

\* C3 (amended): two raced turns both pass the pre-check and both commit, and
\* each commit writes the value its own pre-check saw minus one: after both
\* commits the counter is one below that value, and not negative.
C3_LostUpdate ==
  [][\A a, b \in TurnIds :
       (Completes(b) /\ RacedPair(a, b) /\ turns[a].outcome = "ok"
        /\ turns[b].user.user_id \in DOMAIN users)
       => /\ Quota(users'[turns[b].user.user_id], turns[b].model)
               = Quota(turns[b].user, turns[b].model) - 1
          /\ Quota(users'[turns[b].user.user_id], turns[b].model) >= 0]_vars

\* C3 witness: both raced turns committed from a pre-check value of 2 and the
\* counter stands at 1.
C3_Witness ==
  \E a, b \in TurnIds :
    /\ RacedPair(a, b) /\ turns[a].model = "enhanced"
    /\ turns[a].user.quota_enhanced = 2
    /\ turns[a].outcome = "ok" /\ turns[b].outcome = "ok"
    /\ users[turns[a].user.user_id].quota_enhanced = 1

QuotaCodes == {"login_required", "quota_enhanced", "quota_pro"}

\* C4: a premium turn whose token resolves to no identity, or whose identity
\* has a counter <= 0 for the tier, is rejected on arrival by the quota check
\* and writes no message, no conversation and no counter, then or later; a
\* normal turn is never rejected by the quota check.
C4_QuotaRejection ==
  [][/\ \A r \in 1..Len(turns') :
          Arrives(r) =>
            LET t == turns'[r] IN
            /\ (t.model \in Premium /\ t.user = Null)
                 => (t.outcome = "login_required" /\ t.pc = "done")
            /\ (t.model \in Premium /\ t.user # Null /\ Quota(t.user, t.model) <= 0)
                 => (t.outcome = (IF t.model = "pro" THEN "quota_pro" ELSE "quota_enhanced")
                     /\ t.pc = "done")
            /\ t.model = "normal" => t.outcome \notin QuotaCodes
            /\ t.outcome \in QuotaCodes
                 => (r \notin fetches' /\ UNCHANGED <<users, conversations, messages>>)
     /\ \A r \in TurnIds :
          turns[r].outcome \in QuotaCodes
            => (turns'[r] = turns[r] /\ \A i \in 1..Len(messages') : messages'[i].turn # r)
    ]_vars

\* C4 witness: one turn was rejected for an exhausted pro counter and one for
\* a token that resolves to no identity.
C4_Witness ==
  \E a, b \in TurnIds :
    /\ turns[a].outcome = "quota_pro" /\ turns[a].user.quota_pro = 0
    /\ turns[b].outcome = "login_required" /\ turns[b].user = Null

\* C2: without overlapping turns, each premium counter of an identity equals
\* its initial value minus the number of that identity's successful turns of
\* that tier; rejected and failed turns, and turns of the other tiers, leave
\* it unchanged.
C2_SequentialDecrement ==
  \A id \in DOMAIN users : \A tier \in Premium :
    Quota(users[id], tier) =
      (IF tier = "enhanced" THEN defaultQuotas.enhanced ELSE defaultQuotas.pro)
      - Cardinality({r \in TurnIds : /\ turns[r].outcome = "ok"
                                     /\ turns[r].user # Null
                                     /\ turns[r].user.user_id = id
                                     /\ turns[r].model = tier})

\* C2 witness: two successful enhanced turns took the counter from 2 to 0 and
\* a third premium turn of the identity failed upstream or was rejected.
C2_Witness ==
  \E id \in DOMAIN users :
    /\ users[id].quota_enhanced = 0 /\ users[id].quota_pro = defaultQuotas.pro
    /\ Cardinality({r \in TurnIds : turns[r].outcome = "ok"
                                    /\ turns[r].model = "enhanced"}) = 2
    /\ \E r \in TurnIds : /\ turns[r].token = "t1" /\ turns[r].model \in Premium
                          /\ turns[r].outcome \notin {"ok", "pending"}

\* Requests from the address of request r on r's date, up to and including r.
RequestsSoFar(r) ==
  Cardinality({q \in 1..r : turns[q].ip = turns[r].ip /\ turns[q].date = turns[r].date})

\* C5: for an unblocked address with daily limit L >= 1, the first L requests
\* of a date pass admission and every later request of that date is rejected
\* as rate-limited, whatever became of the earlier ones; the count starts
\* again on each date.
C5_DailyLimit ==
  \A r \in TurnIds :
    (LimitValue(turns[r].ip) >= 1 /\ ~IsBlocked(turns[r].ip)) =>
      IF RequestsSoFar(r) <= LimitValue(turns[r].ip)
      THEN turns[r].outcome \notin {"rate_limited", "blocked"}
      ELSE turns[r].outcome = "rate_limited"

\* C5 witness: with L = 2 the third request of date 1 was rate-limited, after
\* an upstream failure among the first two, and a request on date 2 passed.
C5_Witness ==
  /\ LimitValue("ip1") = 2 /\ ~IsBlocked("ip1")
  /\ \E a, b, c \in TurnIds :
       /\ a < b /\ b < c
       /\ turns[a].ip = "ip1" /\ turns[b].ip = "ip1" /\ turns[c].ip = "ip1"
       /\ turns[a].date = 1 /\ turns[a].outcome = "upstream"
       /\ turns[b].date = 1 /\ turns[b].outcome = "rate_limited"
       /\ turns[c].date = 2 /\ turns[c].outcome = "ok"

AdmissionCodes == {"blocked", "rate_limited"}

\* C6 (as stated): every request that passes admission, from any address,
\* adds one to the counter of (address, current date); no other step and no
\* blocked or rate-limited request changes a counter.
C6_Original ==
  [][/\ \A r \in 1..Len(turns') :
          Arrives(r) =>
            ip_requests' = IF turns'[r].outcome \notin AdmissionCodes
                           THEN [ip_requests EXCEPT ![<<turns'[r].ip, today>>] = @ + 1]
                           ELSE ip_requests
     /\ Len(turns') = Len(turns) => ip_requests' = ip_requests
    ]_vars

\* C6 (amended): a request that passes admission from an address that has a
\* limit rule adds one to the counter of (address, current date), from 0 when
\* there was no row; a request from an address without a limit rule, a blocked
\* and a rate-limited request leave every counter unchanged; and no later step
\* of the turn (rejection, upstream failure, success) changes a counter.
C6_CountedWhenLimited ==
  [][/\ \A r \in 1..Len(turns') :
          Arrives(r) =>
            ip_requests' = IF /\ turns'[r].outcome \notin AdmissionCodes
                              /\ LimitValue(turns'[r].ip) # 0
                           THEN [ip_requests EXCEPT ![<<turns'[r].ip, today>>] = @ + 1]
                           ELSE ip_requests
     /\ Len(turns') = Len(turns) => ip_requests' = ip_requests
    ]_vars

\* C6 witness: a request from the limited address was counted and then failed
\* upstream, one was counted and then rejected by the quota check, and an
\* admitted request from the address without a rule left no counter.
C6_Witness ==
  /\ LimitValue("ip1") = 2 /\ ip_requests[<<"ip1", 1>>] = 2
  /\ \A d \in 1..MaxDate : ip_requests[<<"ip2", d>>] = 0
  /\ \E a, b, c \in TurnIds :
       /\ turns[a].ip = "ip1" /\ turns[a].outcome = "upstream"
       /\ turns[b].ip = "ip1" /\ turns[b].outcome = "login_required"
       /\ turns[c].ip = "ip2" /\ turns[c].outcome = "ok"

\* C7: a request from an address with a block rule is answered "blocked"
\* without entering the handler and without changing any table, also when
\* the address has a limit rule as well; nothing happens for it later.
C7_BlockedTouchesNothing ==
  [][/\ \A r \in 1..Len(turns') :
          (Arrives(r) /\ IsBlocked(turns'[r].ip)) =>
            /\ turns'[r].outcome = "blocked" /\ turns'[r].pc = "done"
            /\ turns'[r].user = Null
            /\ r \notin fetches'
            /\ UNCHANGED <<tables, nanoid>>
     /\ \A r \in TurnIds : turns[r].outcome = "blocked" => turns'[r] = turns[r]
    ]_vars

\* C7 witness: a blocked request from an address that also has a limit rule,
\* after which the counters of that address are still absent.
C7_Witness ==
  \E r \in TurnIds :
    /\ turns[r].outcome = "blocked" /\ LimitValue(turns[r].ip) # 0
    /\ \A d \in 1..MaxDate : ip_requests[<<turns[r].ip, d>>] = 0

\* The outcomes of a turn turned away before the backend call.
RejectionCodes ==
  {"blocked", "rate_limited", "sensitive", "no_api_key", "login_required",
   "quota_enhanced", "quota_pro"}

\* C8: a turn rejected by admission (blocked or rate-limited), by input
\* moderation (flagged latest user message, tag not the trusted marker,
\* guests included), by the missing backend credential or by the quota check
\* ends at its arrival with the matching rejection, opens no backend call and
\* writes no 'chat' audit entry, then or later.
C8_RejectedBeforeBackend ==
  [][ /\ \A r \in 1..Len(turns') : Arrives(r) =>
           LET t == turns'[r]
               u == UserByToken(t.token)
               blocked == IsBlocked(t.ip)
               limited == /\ ~blocked
                          /\ LimitValue(t.ip) # 0
                          /\ ip_requests[<<t.ip, today>>] >= LimitValue(t.ip)
               admitted == ~blocked /\ ~limited
               flagged == /\ admitted
                          /\ checkSensitive(t.lastContent)
                          /\ (u = Null \/ u.tag # "trusted")
               noKey == admitted /\ ~flagged /\ ~apiKey
               noQuota == /\ admitted /\ ~flagged /\ apiKey
                          /\ t.model \in Premium
                          /\ (u = Null \/ Quota(u, t.model) <= 0)
               rejected == blocked \/ limited \/ flagged \/ noKey \/ noQuota
           IN /\ blocked => t.outcome = "blocked"
              /\ limited => t.outcome = "rate_limited"
              /\ flagged => t.outcome = "sensitive"
              /\ noKey => t.outcome = "no_api_key"
              /\ noQuota => t.outcome \in QuotaCodes
              /\ rejected <=> t.outcome \in RejectionCodes
              /\ rejected => /\ t.pc = "done"
                             /\ r \notin fetches'
                             /\ audit_logs' = audit_logs
              /\ ~rejected => r \in fetches'
      /\ \A r \in TurnIds : turns[r].outcome \in RejectionCodes =>
           /\ turns'[r] = turns[r]
           /\ r \notin fetches'
           /\ \A i \in 1..Len(audit_logs') : audit_logs'[i].turn # r
    ]_vars

\* Reached: a guest's flagged turn was rejected without a backend call or an
\* audit entry, while the same text from the trusted identity went to the
\* backend and completed with its audit entry.
C8_Witness ==
  \E a, b \in TurnIds :
    /\ turns[a].outcome = "sensitive" /\ turns[a].user = Null
    /\ a \notin fetches
    /\ \A i \in 1..Len(audit_logs) : audit_logs[i].turn # a
    /\ turns[b].outcome = "ok" /\ turns[b].user # Null
    /\ turns[b].user.tag = "trusted"
    /\ turns[b].lastContent = turns[a].lastContent
    /\ b \in fetches
    /\ \E i \in 1..Len(audit_logs) : audit_logs[i].turn = b

\* The positions of the content-replacement frames of a frame sequence.
ReplaceAt(frames) == {i \in 1..Len(frames) : frames[i].type = "replace"}

\* C9: when a turn completes and its accumulated output contains a word of
\* the moderation list, the assistant message inserted for the turn is the
\* fixed refusal string, and the caller was written exactly one
\* content-replacement frame, which carries that string.
C9_OutputRefusal ==
  [][ \A r \in TurnIds :
        (Completes(r) /\ checkSensitive(turns[r].content)) =>
          /\ \E i \in (Len(messages) + 1)..Len(messages') :
               messages'[i].turn = r /\ messages'[i].role = "assistant"
          /\ \A i \in 1..Len(messages') :
               (messages'[i].turn = r /\ messages'[i].role = "assistant") =>
                 messages'[i].content = Refusal
          /\ Cardinality(ReplaceAt(turns'[r].frames)) = 1
          /\ \A i \in ReplaceAt(turns'[r].frames) :
               turns'[r].frames[i].content = Refusal
    ]_vars

\* Reached: a completed turn whose two deltas spelt a listed word: the
\* caller saw both deltas, then the replacement, then the terminal frame, and
\* the assistant message stored is the refusal.
C9_Witness ==
  \E r \in TurnIds :
    /\ turns[r].outcome = "ok"
    /\ Len(turns[r].frames) = 4
    /\ turns[r].frames[1] = [type |-> "delta", delta |-> <<"a">>]
    /\ turns[r].frames[2] = [type |-> "delta", delta |-> <<"b">>]
    /\ turns[r].frames[3] = [type |-> "replace", content |-> Refusal]
    /\ turns[r].frames[4].type = "done"
    /\ \E i \in 1..Len(messages) :
         /\ messages[i].turn = r /\ messages[i].role = "assistant"
         /\ messages[i].content = Refusal

\* C10: the step in which the backend's non-success or body-less answer
\* ends a turn gives it the upstream-error outcome with nothing written to
\* the caller's stream, and changes no table: no conversation row, no
\* message row, no quota decrement, and the admission count of the request
\* stays; the turn never changes again and never gets a message row.
C10_UpstreamCommitsNothing ==
  [][ /\ \A r \in TurnIds :
           (turns[r].pc = "fetch" /\ turns'[r].outcome = "upstream") =>
             /\ turns'[r].pc = "done" /\ turns'[r].frames = <<>>
             /\ UNCHANGED <<users, conversations, messages, audit_logs,
                            metrics_daily, metrics_traffic, keywords_daily>>
             /\ ip_requests' = ip_requests
      /\ \A r \in TurnIds : turns[r].outcome = "upstream" =>
           /\ turns'[r] = turns[r]
           /\ \A i \in 1..Len(messages') : messages'[i].turn # r
    ]_vars

\* Reached: a logged-in identity's premium turn from a limited address ended
\* with the upstream error: its admission count is still 1, its counter is
\* the value the pre-check read, and no conversation or message exists.
C10_Witness ==
  \E r \in TurnIds :
    /\ turns[r].outcome = "upstream"
    /\ turns[r].model \in Premium /\ turns[r].user # Null
    /\ LimitValue(turns[r].ip) # 0
    /\ ip_requests[<<turns[r].ip, turns[r].date>>] = 1
    /\ Quota(users[turns[r].user.user_id], turns[r].model)
         = Quota(turns[r].user, turns[r].model)
    /\ conversations = <<>> /\ messages = <<>>

\* The step ends turn r, leaving it with an outcome among `outcomes`.
Ends(r, outcomes) ==
  r \in TurnIds /\ turns[r].pc # "done" /\ turns'[r].pc = "done"
  /\ turns'[r].outcome \in outcomes

\* The positions of the delta frames of a frame sequence.
DeltaAt(frames) == {i \in 1..Len(frames) : frames[i].type = "delta"}

\* total_requests of the current date's daily metric row.
TotalRequests(table) == Get(table, today, ZeroDaily).total_requests

\* C11: when the backend stream breaks after at least one delta was
\* forwarded, the caller is answered the generic service failure, and the
\* daily metric, the audit entry and the assistant message holding the
\* partial text are still written.
C11_Original ==
  [][\A r \in TurnIds :
       (/\ turns[r].pc = "stream" /\ DeltaAt(turns[r].frames) # {}
        /\ turns'[r].pc = "done" /\ turns'[r].outcome # "ok")
       => /\ turns'[r].outcome = "service_error"
          /\ TotalRequests(metrics_daily') = TotalRequests(metrics_daily) + 1
          /\ Len(audit_logs') = Len(audit_logs) + 1
          /\ \E i \in (Len(messages) + 1)..Len(messages') :
               /\ messages'[i].turn = r /\ messages'[i].role = "assistant"
               /\ messages'[i].content = turns[r].content
    ]_vars

\* C12: no turn ends with a fault that escapes the request handler, and the
\* server keeps serving, whatever the backend did.
C12_Original ==
  Serving /\ \A r \in TurnIds : turns[r].outcome \notin Faults

\* C13: the step that ends a turn with success (the output replaced or not)
\* or with the upstream error adds one to the current date's total_requests
\* and appends one audit entry for the turn, whose content is the first 120
\* characters of the latest user message.
C13_Original ==
  [][\A r \in TurnIds :
       Ends(r, {"ok", "upstream"})
       => /\ TotalRequests(metrics_daily') = TotalRequests(metrics_daily) + 1
          /\ Len(audit_logs') = Len(audit_logs) + 1
          /\ audit_logs'[Len(audit_logs')].turn = r
          /\ audit_logs'[Len(audit_logs')].content = Slice(turns[r].lastContent, 120)
    ]_vars

\* --- persistence: turns that arrive one after the other, from a guest and
\* one identity, conversation ids generated or
\* supplied by the client, usage reported (by the backend's one
\* response.completed event) or not, and time passing
Persistence ==
  [maxReq |-> MaxPersistReq, ips |-> {"ip1"}, tokens |-> {NoToken, "t1"},
   tiers |-> {"normal"}, contents |-> {<<>>, <<"a">>}, convs |-> {NoConv, 101}]

InitPersistence ==
  /\ apiKey = TRUE
  /\ ip_rules = {}
  /\ InitTables

NextPersistence ==
  \/ (\A q \in 1..Len(turns) : turns[q].pc = "done") /\ Requests(Persistence)
  \/ \E r \in 1..Len(turns) : FetchOk(r)
  \/ \E r \in 1..Len(turns), u \in Usages :
       turns[r].nev = 0 /\ StreamCompleted(r, u)
  \/ \E r \in 1..Len(turns) : StreamEnd(r, 10)
  \/ Login("t1")
  \/ Elapse

SpecPersistence == InitPersistence /\ [][NextPersistence]_vars

\* The terminal frame of a completed turn's frame sequence.
TerminalFrame(frames) == frames[Len(frames)]

\* C14: when a turn completes, reading its conversation by id returns the
\* messages it returned before followed by the turn's user message (when the
\* latest user message is non-empty) and then its assistant message, whose
\* token counts are the usage of the turn's terminal frame (zero when the
\* backend reported none); the conversation row exists afterwards, created
\* for the turn's identity (null for a guest) if it was absent.
C14_RoundTrip ==
  [][\A r \in TurnIds : Completes(r) =>
       LET t == turns[r]
           id == ConvIdOf(t)
           before == MessagesIn(messages, id)
           got == GetConversationIn(conversations', messages', id)
           n == Len(before)
           k == IF t.lastContent # <<>> THEN 2 ELSE 1
           done == TerminalFrame(turns'[r].frames)
       IN /\ got.code = 0
          /\ id \notin DOMAIN conversations =>
               got.conversation = [user_id |-> UserIdOf(t), model |-> t.model]
          /\ id \in DOMAIN conversations => got.conversation = conversations[id]
          /\ Len(got.messages) = n + k
          /\ SubSeq(got.messages, 1, n) = before
          /\ t.lastContent # <<>> =>
               /\ got.messages[n + 1].role = "user"
               /\ got.messages[n + 1].content = t.lastContent
               /\ got.messages[n + 1].turn = r
          /\ got.messages[n + k].role = "assistant"
          /\ got.messages[n + k].turn = r
          /\ done.type = "done"
          /\ got.messages[n + k].usage_prompt = done.usage.prompt
          /\ got.messages[n + k].usage_completion = done.usage.completion
          /\ t.usage = ZeroUsage =>
               /\ got.messages[n + k].usage_prompt = 0
               /\ got.messages[n + k].usage_completion = 0
    ]_vars

\* Reached: a guest's conversation holds a first exchange whose backend
\* reported usage and, a millisecond later, a second turn under the same
\* supplied id with an empty user message and no usage reported: user,
\* assistant, assistant.
C14_Witness ==
  LET got == GetConversation(101)
  IN /\ got.code = 0 /\ got.conversation.user_id = NullId
     /\ Len(got.messages) = 3
     /\ got.messages[1].role = "user" /\ got.messages[2].role = "assistant"
     /\ got.messages[2].usage_prompt = 3 /\ got.messages[2].usage_completion = 4
     /\ got.messages[2].turn = got.messages[1].turn
     /\ got.messages[3].role = "assistant"
     /\ got.messages[3].turn # got.messages[1].turn
     /\ got.messages[3].usage_prompt = 0
     /\ got.messages[3].created_at > got.messages[2].created_at

\* --- ownership: overlapping turns of a guest and one identity under
\* generated or supplied conversation ids, and the removal of the identity
Ownership ==
  [maxReq |-> MaxPersistReq, ips |-> {"ip1"}, tokens |-> {NoToken, "t1"},
   tiers |-> {"normal"}, contents |-> {<<"a">>}, convs |-> {NoConv, 101}]

InitOwnership ==
  /\ apiKey = TRUE
  /\ ip_rules = {}
  /\ InitTables

NextOwnership ==
  \/ Requests(Ownership)
  \/ \E r \in 1..Len(turns) : FetchOk(r)
  \/ \E r \in 1..Len(turns) : StreamEnd(r, 10)
  \/ Login("t1")
  \/ \E id \in DOMAIN users : AdminDeleteUser(id)

SpecOwnership == InitOwnership /\ [][NextOwnership]_vars

\* C15: every message stored under the id of an existing conversation was
\* produced by a turn of the identity that owns the conversation (a guest's
\* turn when the owner is null).
C15_Original ==
  \A i \in 1..Len(messages) :
    messages[i].conversation_id \in DOMAIN conversations =>
      UserIdOf(turns[messages[i].turn])
        = conversations[messages[i].conversation_id].user_id

\* C18: every conversation in the store is a guest's or is owned by an
\* identity that is still in the store, so none (and no message of one) is
\* left behind for a removed identity, also when one of its turns was in
\* flight at the removal.
C18_Original ==
  \A c \in DOMAIN conversations :
    conversations[c].user_id \in DOMAIN users \cup {NullId}

\* The positions of the frames of one type in a frame sequence.
FramesAt(frames, type) == {i \in 1..Len(frames) : frames[i].type = type}

\* C16: the frames written for a successful turn are its deltas, then at most
\* one replacement, then exactly one terminal frame, then the end-of-stream
\* marker as the last frame: no delta, replacement or terminal frame comes
\* after the marker.
C16_Original ==
  \A r \in TurnIds : turns[r].outcome = "ok" =>
    LET frames == turns[r].frames
        n == Len(frames)
    IN /\ n >= 2
       /\ frames[n].type = "sentinel"
       /\ frames[n - 1].type = "done"
       /\ Cardinality(FramesAt(frames, "sentinel")) = 1
       /\ Cardinality(FramesAt(frames, "done")) = 1
       /\ Cardinality(FramesAt(frames, "replace")) <= 1
       /\ \A i \in FramesAt(frames, "delta"), j \in FramesAt(frames, "replace") : i < j
       /\ \A i \in FramesAt(frames, "replace") : i = n - 2

\* --- cancellation: guests' overlapping turns, any of which the caller may
\* abort while it waits for the backend or streams
Cancellation ==
  [maxReq |-> MaxReq, ips |-> {"ip1"}, tokens |-> {NoToken},
   tiers |-> {"normal"}, contents |-> {<<"a">>}, convs |-> {NoConv}]

InitCancellation ==
  /\ apiKey = TRUE
  /\ ip_rules = {}
  /\ InitTables

NextCancellation ==
  \/ Requests(Cancellation)
  \/ \E r \in 1..Len(turns) : FetchOk(r)
  \/ \E r \in 1..Len(turns) : StreamDelta(r, <<"a">>)
  \/ \E r \in 1..Len(turns) : StreamOther(r)
  \/ \E r \in 1..Len(turns) : StreamEnd(r, 10)
  \/ \E r \in 1..Len(turns) : Abort(r)

SpecCancellation == InitCancellation /\ [][NextCancellation]_vars

\* C17: once the caller has aborted a turn, the relay writes it no further
\* frame, reads no further event of the backend stream (it does not start
\* reading it either), and no accounting row written before is removed.
C17_Original ==
  [][\A r \in TurnIds : turns[r].aborted =>
       /\ turns'[r].frames = turns[r].frames
       /\ turns'[r].nev = turns[r].nev
       /\ turns[r].pc = "fetch" => turns'[r].pc # "stream"
       /\ Len(audit_logs') >= Len(audit_logs)
       /\ Len(messages') >= Len(messages)
    ]_vars

\* --- trust: a guest and one identity whose tag the administrator may set
\* to the trusted marker or to another tag, a user message that is on the
\* moderation list once the administrator adds it, and an output that spells
\* the same word; the backend credential may be missing and the identity's
\* enhanced counter is 0 after the edit
Trust ==
  [maxReq |-> MaxTrustReq, ips |-> {"ip1"}, tokens |-> {NoToken, "t1"},
   tiers |-> {"normal", "enhanced"}, contents |-> {<<"a">>}, convs |-> {NoConv}]

InitTrust ==
  /\ apiKey \in BOOLEAN
  /\ ip_rules = {}
  /\ InitTables

NextTrust ==
  \/ (\A q \in 1..Len(turns) : turns[q].pc = "done") /\ Requests(Trust)
  \/ \E r \in 1..Len(turns) : FetchOk(r)
  \/ \E r \in 1..Len(turns) : StreamDelta(r, <<"a">>)
  \/ \E r \in 1..Len(turns) : StreamEnd(r, 10)
  \/ Login("t1")
  \/ \E id \in DOMAIN users, tag \in {"trusted", "vip"} : AdminEditUser(id, tag, 0, 1)
  \/ AdminAddWord(<<"a">>)

SpecTrust == InitTrust /\ [][NextTrust]_vars

\* C19: a turn whose latest user message contains a listed word is rejected
\* by input moderation unless its resolved identity carries the tag
\* "trusted"; with that tag it goes on to the credential check, the quota
\* check and the backend call. When a turn completes, its output is
\* re-screened whatever the tag: a flagged output is stored and sent as the
\* refusal, an unflagged one is stored as generated with no replacement.
C19_TrustedBypass ==
  [][ /\ \A r \in 1..Len(turns') :
           (Arrives(r) /\ checkSensitive(turns'[r].lastContent)) =>
             LET t == turns'[r]
                 u == UserByToken(t.token)
                 trusted == u # Null /\ u.tag = "trusted"
             IN /\ ~trusted => t.outcome = "sensitive" /\ r \notin fetches'
                /\ trusted =>
                     /\ t.outcome # "sensitive"
                     /\ ~apiKey => t.outcome = "no_api_key"
                     /\ (apiKey /\ t.model \in Premium /\ Quota(u, t.model) <= 0)
                          => t.outcome \in QuotaCodes
                     /\ (apiKey /\ (t.model \notin Premium \/ Quota(u, t.model) > 0))
                          => t.outcome = "pending" /\ r \in fetches'
      /\ \A r \in TurnIds : Completes(r) =>
           LET flagged == checkSensitive(turns[r].content)
               stored == {i \in (Len(messages) + 1)..Len(messages') :
                            messages'[i].turn = r /\ messages'[i].role = "assistant"}
           IN /\ Cardinality(stored) = 1
              /\ \A i \in stored :
                   messages'[i].content = IF flagged THEN Refusal ELSE turns[r].content
              /\ Cardinality(ReplaceAt(turns'[r].frames)) = IF flagged THEN 1 ELSE 0
    ]_vars

\* Reached: with the word on the list, a guest's turn was rejected by input
\* moderation, and the same message from the trusted identity went to the
\* backend, whose output spelt the word and was replaced by the refusal.
C19_Witness ==
  \E a, b \in TurnIds :
    /\ turns[a].user = Null /\ turns[a].outcome = "sensitive"
    /\ turns[b].user # Null /\ turns[b].user.tag = "trusted"
    /\ turns[b].lastContent = turns[a].lastContent
    /\ checkSensitive(turns[b].lastContent)
    /\ turns[b].outcome = "ok" /\ turns[b].content = Refusal
    /\ ReplaceAt(turns[b].frames) # {}
    /\ DeltaAt(turns[b].frames) # {}

\* --- the post-stream block statement by statement: overlapping enhanced
\* turns of one identity and of guests (rejected), an output that may spell
\* a listed word; nothing else runs while a turn is inside the block
Steps ==
  [maxReq |-> MaxStepReq, ips |-> {"ip1"}, tokens |-> {NoToken, "t1"},
   tiers |-> {"enhanced"}, contents |-> {<<"a">>}, convs |-> {NoConv}]

InitSteps ==
  /\ apiKey = TRUE
  /\ ip_rules = {}
  /\ InitTables

NextSteps ==
  \/ ~InPostStream /\ Requests(Steps)
  \/ ~InPostStream /\ \E r \in 1..Len(turns) : FetchOk(r)
  \/ ~InPostStream /\ \E r \in 1..Len(turns) : StreamDelta(r, <<"a">>)
  \/ ~InPostStream /\ \E r \in 1..Len(turns) : StepRescreen(r, 10)
  \/ \E r \in 1..Len(turns) : StepMetrics(r)
  \/ \E r \in 1..Len(turns) : StepQuota(r)
  \/ \E r \in 1..Len(turns) : StepPersist(r)
  \/ \E r \in 1..Len(turns) : StepAudit(r)
  \/ \E r \in 1..Len(turns) : StepFinal(r)
  \/ ~InPostStream /\ Login("t1")
  \/ ~InPostStream /\ AdminAddWord(<<"a">>)

SpecSteps == InitSteps /\ [][NextSteps]_vars

\* The step is a step of turn r from position `from` of the handler.
StepsFrom(r, from) == r \in TurnIds /\ turns[r].pc = from /\ turns'[r] # turns[r]

\* Turn r has an audit entry, has message rows.
Audited(r) == \E i \in 1..Len(audit_logs) : audit_logs[i].turn = r
Persisted(r) == \E i \in 1..Len(messages) : messages[i].turn = r

\* C20: inside the post-stream block the quota decrement comes before the
\* daily-metrics update (when the daily metric is written for a premium turn
\* of an identity, its counter has been written already), and the audit
\* entry comes before the message inserts.
C20_Original ==
  [][\A r \in TurnIds :
       /\ (turns'[r] # turns[r] /\ metrics_daily' # metrics_daily
           /\ turns[r].user # Null /\ turns[r].model \in Premium)
          => Quota(users[turns[r].user.user_id], turns[r].model)
               = Quota(turns[r].user, turns[r].model) - 1
       /\ (turns'[r] # turns[r] /\ messages' # messages) => Audited(r)
    ]_vars

\* C20 (amended): after the backend stream has ended a turn runs, with no
\* other handler in between: output re-screening (replacement frame), then
\* the metrics (daily, traffic, keywords), then the quota commit, then the
\* conversation and message inserts, then the audit entry, then the terminal
\* frame; each step writes its own tables and no others, so the metrics are
\* written while the counter still has its old value and the messages are
\* stored before the audit entry exists.
C20_CodeOrder ==
  [][\A r \in TurnIds :
       /\ (turns[r].pc \in PostPcs /\ turns'[r] = turns[r]) => UNCHANGED vars
       /\ StepsFrom(r, "stream") =>
            \/ turns'[r].pc \in {"stream", "done"}
            \/ /\ turns'[r].pc = "metrics"
               /\ Cardinality(ReplaceAt(turns'[r].frames))
                    = IF checkSensitive(turns[r].content) THEN 1 ELSE 0
               /\ UNCHANGED tables
       /\ StepsFrom(r, "metrics") =>
            /\ turns'[r].pc = "quota"
            /\ TotalRequests(metrics_daily') = TotalRequests(metrics_daily) + 1
            /\ metrics_traffic' # metrics_traffic /\ keywords_daily' # keywords_daily
            /\ UNCHANGED <<users, conversations, messages, audit_logs>>
       /\ StepsFrom(r, "quota") =>
            /\ turns'[r].pc = "persist"
            /\ (turns[r].user # Null /\ turns[r].user.user_id \in DOMAIN users) =>
                 Quota(users'[turns[r].user.user_id], turns[r].model)
                   = Quota(turns[r].user, turns[r].model) - 1
            /\ UNCHANGED <<metrics_daily, metrics_traffic, keywords_daily,
                           conversations, messages, audit_logs>>
       /\ StepsFrom(r, "persist") =>
            /\ turns'[r].pc = "audit"
            /\ ~Persisted(r) /\ Persisted(r)' /\ ~Audited(r)
            /\ Cardinality(DOMAIN conversations') = Cardinality(DOMAIN conversations) + 1
            /\ UNCHANGED <<users, metrics_daily, metrics_traffic, keywords_daily,
                           audit_logs>>
       /\ StepsFrom(r, "audit") =>
            /\ turns'[r].pc = "final"
            /\ Persisted(r) /\ ~Audited(r) /\ Audited(r)'
            /\ UNCHANGED <<users, metrics_daily, metrics_traffic, keywords_daily,
                           conversations, messages>>
       /\ StepsFrom(r, "final") =>
            /\ turns'[r].pc = "done" /\ turns'[r].outcome = "ok"
            /\ TerminalFrame(turns'[r].frames).type = "done"
            /\ Len(turns'[r].frames) = Len(turns[r].frames) + 1
            /\ Audited(r)
            /\ UNCHANGED tables
    ]_vars

\* Reached: a premium turn of an identity stands between its message inserts
\* and its audit entry: the metrics are written, the counter is decremented,
\* the messages are stored, the replacement frame is out, and there is no
\* audit entry and no terminal frame yet.
C20_Witness ==
  \E r \in TurnIds :
    /\ turns[r].pc = "audit" /\ turns[r].user # Null
    /\ TotalRequests(metrics_daily) = 1
    /\ Quota(users[turns[r].user.user_id], turns[r].model)
         = Quota(turns[r].user, turns[r].model) - 1
    /\ Persisted(r) /\ ~Audited(r)
    /\ ReplaceAt(turns[r].frames) # {}
    /\ FramesAt(turns[r].frames, "done") = {}

\* --- the read loop byte by byte: one guest turn, a backend body of whole
\* frames cut into chunks at any character
Wire ==
  [maxReq |-> 1, ips |-> {"ip1"}, tokens |-> {NoToken},
   tiers |-> {"normal"}, contents |-> {<<"a">>}, convs |-> {NoConv}]

InitWire ==
  /\ apiKey = TRUE
  /\ ip_rules = {}
  /\ InitTables

NextWire ==
  \/ Requests(Wire)
  \/ \E r \in 1..Len(turns) : FetchOk(r)
  \/ \E r \in 1..Len(turns) : StreamChunk(r)
  \/ \E r \in 1..Len(turns) : StreamEnd(r, 10)

SpecWire == InitWire /\ [][NextWire]_vars

\* The loop's variables of a turn.
LoopOf(t) == [buffer |-> t.buffer, content |-> t.content, usage |-> t.usage,
              frames |-> t.frames]

\* C21: however the backend body was cut into chunks, the frames forwarded,
\* the accumulated text, the usage and the carried remainder of a streaming
\* turn are those of reading the same bytes as one chunk; and what a turn
\* that has ended forwarded before its terminal frames, and the tokens it
\* recorded, are those of the one-chunk reading as well.
C21_ChunkingInvariance ==
  \A r \in TurnIds :
    LET t == turns[r]
        one == RelayChunk(RelayStart, t.body)
    IN /\ t.pc = "stream" => LoopOf(t) = one
       /\ t.outcome = "ok" =>
            /\ SubSeq(t.frames, 1, Len(t.frames) - 1) = one.frames
            /\ t.usage = one.usage
            /\ TotalRequests(metrics_daily) = 1
            /\ metrics_daily[today].token_total = one.usage.total_tokens

\* Reached: a body of two delta frames has been read in chunks that ended
\* inside a frame and inside a blank-line separator; both deltas were
\* forwarded in order and nothing is left in the buffer.
C21_Witness ==
  \E r \in TurnIds :
    /\ turns[r].pc = "stream"
    /\ {"frame", "separator"} \subseteq turns[r].cuts
    /\ turns[r].body \in WireBodies
    /\ turns[r].content = <<"a", "b">>
    /\ Len(turns[r].frames) = 2
    /\ turns[r].buffer = <<>>

\* The whole frames at the start of a body, as the backend sent them.
RECURSIVE FramesOf(_)
FramesOf(body) ==
  IF \E f \in WireFrames : Len(f) <= Len(body) /\ SubSeq(body, 1, Len(f)) = f
  THEN LET f == CHOOSE f \in WireFrames :
                  Len(f) <= Len(body) /\ SubSeq(body, 1, Len(f)) = f
       IN <<f>> \o FramesOf(SubSeq(body, Len(f) + 1, Len(body)))
  ELSE <<>>

\* The text a backend frame carries as an output-text delta.
BackendDelta(f) ==
  IF f = DeltaFrameA THEN <<"a">> ELSE IF f = DeltaFrameB THEN <<"b">> ELSE <<>>

\* The deltas of the backend frames fs, one per delta-bearing frame, in order.
RECURSIVE BackendDeltas(_)
BackendDeltas(fs) ==
  IF fs = <<>> THEN <<>>
  ELSE (IF BackendDelta(Head(fs)) = <<>> THEN <<>> ELSE <<BackendDelta(Head(fs))>>)
       \o BackendDeltas(Tail(fs))

\* The deltas forwarded to the caller, in order.
RECURSIVE ForwardedDeltas(_)
ForwardedDeltas(frames) ==
  IF frames = <<>> THEN <<>>
  ELSE (IF Head(frames).type = "delta" THEN <<Head(frames).delta>> ELSE <<>>)
       \o ForwardedDeltas(Tail(frames))

\* The frames the relay is to ignore.
IgnoredFrames == {EmptyDeltaFrame, OtherFrame, BrokenFrame, FieldFrame}

\* C22: while a turn streams, its accumulated text is the concatenation of
\* the deltas forwarded so far, the forwarded deltas are the deltas of the
\* whole frames received, each once and in order, and its usage is that of
\* the completion event if one was received and zeros otherwise; a chunk
\* never fails the turn, and a chunk that completes only frames of other
\* event types, frames that are no JSON text or frames without data changes
\* neither the text nor the usage nor what was written to the caller.
C22_OnlyDeltasAndCompletion ==
  /\ [](\A r \in TurnIds :
          turns[r].pc = "stream" =>
            LET t == turns[r]
                fs == FramesOf(t.body)
            IN /\ t.content = Concat(ForwardedDeltas(t.frames))
               /\ ForwardedDeltas(t.frames) = BackendDeltas(fs)
               /\ t.usage = IF \E i \in 1..Len(fs) : fs[i] = CompletedFrame
                            THEN CHOOSE u \in Usages : TRUE ELSE ZeroUsage)
  /\ [][\A r \in TurnIds :
          (turns[r].pc = "stream" /\ turns'[r].body # turns[r].body) =>
            /\ turns'[r].pc = "stream" /\ turns'[r].outcome = "pending"
            /\ LET old == FramesOf(turns[r].body)
                   new == FramesOf(turns'[r].body)
               IN (\A i \in (Len(old) + 1)..Len(new) : new[i] \in IgnoredFrames) =>
                    /\ turns'[r].content = turns[r].content
                    /\ turns'[r].usage = turns[r].usage
                    /\ turns'[r].frames = turns[r].frames
     ]_vars

\* Reached: a streaming turn has received a delta frame and then a frame
\* that is no JSON text; the delta is its text and the one frame written.
C22_Witness ==
  \E r \in TurnIds :
    /\ turns[r].pc = "stream"
    /\ FramesOf(turns[r].body) = <<DeltaFrameA, BrokenFrame>>
    /\ turns[r].content = <<"a">>
    /\ turns[r].frames = <<[type |-> "delta", delta |-> <<"a">>]>>
    /\ turns[r].usage = ZeroUsage

\* --- the daily metrics: overlapping guest turns with and without a usage
\* report and with different latencies; the date changes, with turns in
\* flight, once the requests of the behaviour have arrived
Metrics ==
  [maxReq |-> MaxMetricReq, ips |-> {"ip1"}, tokens |-> {NoToken},
   tiers |-> {"normal"}, contents |-> {<<"a">>}, convs |-> {NoConv}]

InitMetrics ==
  /\ apiKey = TRUE
  /\ ip_rules = {}
  /\ InitTables

NextMetrics ==
  \/ Requests(Metrics)
  \/ \E r \in 1..Len(turns) : FetchOk(r)
  \/ \E r \in 1..Len(turns), u \in Usages : turns[r].nev = 0 /\ StreamCompleted(r, u)
  \/ \E r \in 1..Len(turns), latencyMs \in {10, 25} : StreamEnd(r, latencyMs)
  \/ Len(turns) = MaxMetricReq /\ Tick

SpecMetrics == InitMetrics /\ [][NextMetrics]_vars

\* C23: a completing turn changes the daily metric row of the current date
\* and no other: the count grows by one, the mean latency becomes the
\* weighted running mean rounded to the nearest integer (half up), the
\* token total grows by the turn's usage total and the peak becomes
\* max(peak, 1); no other step changes the table; the peak of every stored
\* row is exactly 1.
C23_DailyMetric ==
  /\ [][/\ \A r \in TurnIds :
            (turns[r].outcome # "ok" /\ turns'[r].outcome = "ok") =>
              LET old == Get(metrics_daily, today, ZeroDaily)
                  new == metrics_daily'[today]
                  n == old.total_requests
                  sum == old.avg_latency * n + turns'[r].latencyMs
              IN /\ new.total_requests = n + 1
                 /\ 2 * sum - (n + 1) < 2 * (n + 1) * new.avg_latency
                 /\ 2 * (n + 1) * new.avg_latency <= 2 * sum + (n + 1)
                 /\ new.token_total = old.token_total + turns[r].usage.total_tokens
                 /\ new.concurrent_peak
                      = IF old.concurrent_peak > 1 THEN old.concurrent_peak ELSE 1
                 /\ DOMAIN metrics_daily' = DOMAIN metrics_daily \cup {today}
                 /\ \A d \in DOMAIN metrics_daily \ {today} :
                      metrics_daily'[d] = metrics_daily[d]
        /\ (\A r \in TurnIds : turns'[r].outcome = "ok" => turns[r].outcome = "ok")
             => metrics_daily' = metrics_daily
       ]_vars
  /\ [](\A d \in DOMAIN metrics_daily :
          metrics_daily[d].concurrent_peak = 1 /\ metrics_daily[d].total_requests >= 1)

\* Reached: three turns that overlapped completed on one date with latencies
\* 10, 25 and 10, one of them reporting usage: the row counts 3, its mean is
\* round((round(35 / 2) * 2 + 10) / 3) = 15, its peak is 1.
C23_Witness ==
  /\ today \in DOMAIN metrics_daily
  /\ metrics_daily[today].total_requests = 3
  /\ metrics_daily[today].avg_latency = 15
  /\ metrics_daily[today].token_total = 7
  /\ metrics_daily[today].concurrent_peak = 1
  /\ \A r \in TurnIds : turns[r].outcome = "ok" /\ (r > 1 => turns[r].overlaps # {})
  /\ Len(turns) = 3

\* --- persona resolution: guest turns one after the other, with and without
\* a persona id (stored, deleted or unknown) and an inline prompt
PersonaSelection ==
  [maxReq |-> MaxPersonaReq, ips |-> {"ip1"}, tokens |-> {NoToken},
   tiers |-> {"normal", "enhanced"}, contents |-> {<<"a">>}, convs |-> {NoConv},
   personaIds |-> {NoPersona, "miku", "mine"}, personaPrompts |-> {NoPrompt, "gentle"}]

InitPersona ==
  /\ apiKey = TRUE
  /\ ip_rules = {}
  /\ InitTables

NextPersona ==
  \/ /\ \A q \in 1..Len(turns) : turns[q].pc = "done"
     /\ Len(turns) < PersonaSelection.maxReq
     /\ \E model \in PersonaSelection.tiers, personaId \in PersonaSelection.personaIds,
           personaPrompt \in PersonaSelection.personaPrompts :
          ChatRequestWith("ip1", NoToken, model, <<"a">>, NoConv, Client,
                          personaId, personaPrompt)
  \/ \E r \in 1..Len(turns) : FetchOk(r)
  \/ \E r \in 1..Len(turns) : StreamEnd(r, 10)
  \/ \E id \in {"miku", "architect"} : AdminDeletePersona(id)

SpecPersona == InitPersona /\ [][NextPersona]_vars

CustomPersona(personaPrompt) == [name |-> "custom", prompt |-> personaPrompt]

\* C24: the persona of an arriving turn that reaches prompt assembly is the
\* stored persona of the requested id if there is one, else the inline
\* prompt whenever the request carries one, with or without a persona id,
\* else the fallback persona.
C24_Original ==
  [][\A r \in 1..Len(turns') :
       (Arrives(r) /\ turns'[r].pc = "fetch") =>
         turns'[r].activePersona =
           IF turns'[r].personaId \in DOMAIN personas
           THEN personas[turns'[r].personaId]
           ELSE IF turns'[r].personaPrompt # NoPrompt
           THEN CustomPersona(turns'[r].personaPrompt)
           ELSE fallbackPersona
    ]_vars

\* C24 (amended): the persona of an arriving turn that reaches prompt
\* assembly is the stored persona of the requested id if there is one, else
\* the inline prompt if the request carries both a persona id and an inline
\* prompt, else the fallback persona; an inline prompt sent without a
\* persona id is not used.
C24_PersonaResolution ==
  [][\A r \in 1..Len(turns') :
       (Arrives(r) /\ turns'[r].pc = "fetch") =>
         turns'[r].activePersona =
           IF turns'[r].personaId \in DOMAIN personas
           THEN personas[turns'[r].personaId]
           ELSE IF turns'[r].personaId # NoPersona /\ turns'[r].personaPrompt # NoPrompt
           THEN CustomPersona(turns'[r].personaPrompt)
           ELSE fallbackPersona
    ]_vars

\* Reached: one turn sent an inline prompt without a persona id and runs
\* under the fallback persona, a later turn sent the same prompt with the id
\* of a deleted persona and runs under the inline prompt.
C24_Witness ==
  \E a, b \in TurnIds :
    /\ turns[a].personaId = NoPersona /\ turns[a].personaPrompt = "gentle"
    /\ turns[a].activePersona = fallbackPersona
    /\ turns[b].personaId = "miku" /\ turns[b].personaPrompt = "gentle"
    /\ "miku" \notin DOMAIN personas
    /\ turns[b].activePersona = CustomPersona("gentle")

\* C25: the commit of a premium turn writes the counter value of the turn's
\* identity snapshot minus one, whatever the table holds at commit time:
\* right after the turn completes the counter of its tier is its own
\* snapshot minus one and the counter of the other tier is as stored.
C25_CommitFromSnapshot ==
  [][\A r \in TurnIds :
       (Completes(r) /\ turns[r].model \in Premium /\ turns[r].user # Null
        /\ turns[r].user.user_id \in DOMAIN users)
       => LET id == turns[r].user.user_id
              other == IF turns[r].model = "enhanced" THEN "pro" ELSE "enhanced"
          IN /\ Quota(users'[id], turns[r].model)
                  = Quota(turns[r].user, turns[r].model) - 1
             /\ Quota(users'[id], other) = Quota(users[id], other)
    ]_vars

\* Reached: the only turn, an enhanced one with a snapshot of 2, completed
\* after the one administrative operation of the run, which can only have
\* been a recharge of the enhanced counter between snapshot and commit (before
\* the snapshot it would have raised the snapshot, after the commit it would
\* have left 2): the counter stands at 1, the recharge is lost.
C25_Witness ==
  /\ Len(turns) = 1 /\ adminOps = 1
  /\ turns[1].outcome = "ok" /\ turns[1].model = "enhanced"
  /\ turns[1].user # Null
  /\ turns[1].user.quota_enhanced = 2 /\ turns[1].user.quota_pro = 1
  /\ users[turns[1].user.user_id].quota_enhanced = 1
  /\ users[turns[1].user.user_id].quota_pro = 1

RECURSIVE SumOver(_, _)
SumOver(f, S) ==
  IF S = {} THEN 0
  ELSE LET x == CHOOSE x \in S : TRUE IN f[x] + SumOver(f, S \ {x})

\* Per date: the requests of the daily metric, the traffic count of source
\* "direct", the keyword count of the word "a".
RequestsOn == [d \in 1..MaxDate |-> Get(metrics_daily, d, ZeroDaily).total_requests]
DirectOn == [d \in 1..MaxDate |-> Get(metrics_traffic, <<d, "source", "direct">>, 0)]
KeywordOn == [d \in 1..MaxDate |-> Get(keywords_daily, <<d, <<"a">>>>, 0)]

Completed == {r \in TurnIds : turns[r].outcome = "ok"}

\* C26: no metric update is lost, however the turns overlap: a completing
\* turn adds exactly one to the current date's request count, to its traffic
\* counts for source "direct" and for the caller's device and to the keyword
\* count of each word of its message, and leaves the other dates alone; no
\* other step changes a metric; so the counts over all dates add up to the
\* number of completed turns.
C26_NoLostMetricUpdate ==
  /\ [][/\ \A r \in TurnIds :
            Completes(r) =>
              /\ RequestsOn' = [RequestsOn EXCEPT ![today] = @ + 1]
              /\ DirectOn' = [DirectOn EXCEPT ![today] = @ + 1]
              /\ KeywordOn' = [KeywordOn EXCEPT ![today] = @ + 1]
              /\ metrics_traffic'[<<today, "device", turns[r].client.device>>]
                   = Get(metrics_traffic, <<today, "device", turns[r].client.device>>, 0) + 1
        /\ (\A r \in TurnIds : ~Completes(r)) =>
             UNCHANGED <<metrics_daily, metrics_traffic, keywords_daily>>
       ]_vars
  /\ [](/\ SumOver(RequestsOn, 1..MaxDate) = Cardinality(Completed)
        /\ SumOver(DirectOn, 1..MaxDate) = Cardinality(Completed)
        /\ SumOver(KeywordOn, 1..MaxDate) = Cardinality(Completed))

\* Reached: three turns were in flight together; two completed on date 1 and
\* one on date 2, and the counts of the two dates are 2 and 1.
C26_Witness ==
  /\ Len(turns) = 3
  /\ \A r \in TurnIds : turns[r].outcome = "ok"
  /\ 1 \in turns[3].overlaps /\ 2 \in turns[3].overlaps
  /\ RequestsOn[1] = 2 /\ DirectOn[1] = 2 /\ KeywordOn[1] = 2
  /\ RequestsOn[2] = 1 /\ DirectOn[2] = 1 /\ KeywordOn[2] = 1

\* --- the rate limit under load: guests' requests from a limited address
\* arrive while earlier ones are in flight, over several dates; the rule is
\* fixed for the run
Rate ==
  [maxReq |-> MaxRateReq, ips |-> {"ip1"}, tokens |-> {NoToken},
   tiers |-> {"normal"}, contents |-> {<<"a">>}, convs |-> {NoConv}]

InitRate ==
  /\ apiKey = TRUE
  /\ ip_rules \in {{[ip |-> "ip1", type |-> "limit", limit_value |-> L]} :
                     L \in 1..MaxLimit}
  /\ InitTables

NextRate ==
  \/ Requests(Rate)
  \/ \E r \in 1..Len(turns) : FetchNotOk(r)
  \/ \E r \in 1..Len(turns) : FetchOk(r)
  \/ \E r \in 1..Len(turns) : StreamEnd(r, 10)
  \/ Tick

SpecRate == InitRate /\ [][NextRate]_vars

\* C27: with the limit rule of an address fixed at a whole number L >= 1, the
\* counter of (address, date) is at most L in every state, for every date,
\* also while requests of the address are in flight together.
C27_CounterWithinLimit ==
  \A ip \in Ips, d \in 1..MaxDate :
    LimitValue(ip) >= 1 => ip_requests[<<ip, d>>] <= LimitValue(ip)

\* Reached: with L = 2, three requests of the limited address arrived on
\* date 1 while the earlier ones were still in flight; the third was
\* rate-limited and the counter stands at 2.
C27_Witness ==
  /\ LimitValue("ip1") = 2
  /\ Len(turns) = 3
  /\ \A r \in TurnIds : turns[r].ip = "ip1" /\ turns[r].date = 1
  /\ turns[2].overlaps = {1} /\ turns[3].overlaps = {1, 2}
  /\ turns[3].outcome = "rate_limited"
  /\ ip_requests[<<"ip1", 1>>] = 2

\* The stored assistant messages and the audit entries of action "chat".
AssistantRows == {i \in 1..Len(messages) : messages[i].role = "assistant"}
ChatLogs == {i \in 1..Len(audit_logs) : audit_logs[i].action = "chat"}

\* C28: with no deletion and no purge, in every state the number of stored
\* assistant messages, the number of audit entries of action "chat" and the
\* sum over all dates of the daily request counts are equal, and equal to
\* the number of turns that ran the post-stream block; each such turn has
\* exactly one assistant message and one audit entry, and turns that were
\* rejected, failed upstream or are still in flight have none.
C28_OnePerCompletedTurn ==
  /\ Cardinality(AssistantRows) = Cardinality(ChatLogs)
  /\ Cardinality(ChatLogs) = SumOver(RequestsOn, 1..MaxDate)
  /\ \A r \in TurnIds :
       LET rows == {i \in AssistantRows : messages[i].turn = r}
           logs == {i \in ChatLogs : audit_logs[i].turn = r}
       IN Cardinality(rows) = Cardinality(logs)
          /\ Cardinality(logs) = IF turns[r].outcome = "ok" THEN 1 ELSE 0

\* Reached: of three requests one completed on date 1, one failed upstream
\* and one completed on date 2; there are two assistant messages, two audit
\* entries and one counted request on each date.
C28_Witness ==
  /\ \E a, b, c \in TurnIds :
       /\ turns[a].outcome = "ok" /\ turns[b].outcome = "upstream"
       /\ turns[c].outcome = "ok" /\ a # c
  /\ Cardinality(AssistantRows) = 2 /\ Cardinality(ChatLogs) = 2
  /\ RequestsOn[1] = 1 /\ RequestsOn[2] = 1

\* --- server and web client: an identity's enhanced turn whose deltas can
\* spell a listed word, with or without the backend's [DONE]; the client
\* reads the frames in chunks of any size
ClientTurns ==
  [maxReq |-> MaxClientReq, ips |-> {"ip1"}, tokens |-> {"t1"},
   tiers |-> {"enhanced"}, contents |-> {<<"c">>}, convs |-> {NoConv}]

InitClient ==
  /\ apiKey = TRUE
  /\ ip_rules = {}
  /\ InitTables

NextClient ==
  \/ Requests(ClientTurns)
  \/ \E r \in 1..Len(turns) : FetchOk(r)
  \/ \E r \in 1..Len(turns), delta \in Deltas : StreamDelta(r, delta)
  \/ \E r \in 1..Len(turns) : StreamSentinel(r)
  \/ \E r \in 1..Len(turns) : StreamEnd(r, 10)
  \/ \E r \in 1..Len(turns) : ClientRead(r)
  \/ Login("t1")
  \/ AdminAddWord(<<"a">>)

SpecClient == InitClient /\ [][NextClient]_vars

\* C29: when a successful turn that the user did not stop has ended on both
\* sides, the text the client holds for it is the assistant text the server
\* stored and the client has applied the quota remaining of the terminal
\* frame.
C29_Original ==
  \A r \in TurnIds :
    (turns[r].outcome = "ok" /\ turns[r].clientDone /\ ~turns[r].aborted) =>
      /\ \E i \in 1..Len(messages) :
           /\ messages[i].turn = r /\ messages[i].role = "assistant"
           /\ messages[i].content = turns[r].shown
      /\ turns[r].clientQuota = TerminalFrame(turns[r].frames).quotaLeft

\* --- the web client's send, retry and stop, on short and long conversations
InitBrowser ==
  /\ apiKey = TRUE
  /\ ip_rules = {}
  /\ InitTables

NextBrowser ==
  \/ \E content \in {"", "a", "b"}, long \in BOOLEAN : handleSend(content, long)
  \/ \E s \in 1..Len(sends), long \in BOOLEAN : handleRetry(s, long)
  \/ \E s \in 1..Len(sends) : Compressed(s)
  \/ \E s \in 1..Len(sends) : Settled(s)
  \/ handleStop

SpecBrowser == InitBrowser /\ [][NextBrowser]_vars

\* C30: the client never has two chat requests in flight; isTyping is true
\* from the start of a send until its request has settled; while a request
\* is in flight the abort controller in the ref is that request's, and the
\* ref holds no other; a send starts only while isTyping is false.
C30_Original ==
  /\ [](/\ Cardinality(Requesting) <= 1
        /\ \A s \in 1..Len(sends) : sends[s].pc # "done" => isTyping
        /\ \A s \in Requesting : abortControllerRef = s
        /\ abortControllerRef # 0 => abortControllerRef \in Requesting)
  /\ [][Len(sends') > Len(sends) => ~isTyping]_vars

====
